---------------------------- MODULE Spec2Model ----------------------------
(***************************************************************************)
(* opensaft: graph -> program (compile), program -> graph (decompile),     *)
(* and the stack-machine interpreter that evaluates a program at a point.  *)
(*                                                                         *)
(* f32 values are modelled in fixed point: an integer n stands for the     *)
(* float n / ONE.  The inputs are chosen so that every operation the code  *)
(* applies to them (negation, reciprocal, max, clamp, halving) is exact.   *)
(* Signed distances are kept as terms (the sdf function applied to its     *)
(* arguments), so two results are equal exactly when the interpreter       *)
(* applied the same functions to the same arguments in the same order.     *)
(***************************************************************************)
EXTENDS Integers, Sequences, FiniteSets, TLC

\* ------------------------------------------------------------------ bounds
MaxNodes == 2
MaxChildren == 2
MaxApiNodes == 2
MaxRawOps == 3
MaxRawConsts == 4
MaxW == 3
MaxSteps == 3
MaxWireOps == 2

\* --------------------------------------------------------- program constants
ONE == 100 * 100
MIN_SMOOTHING == 1
MIN_SAGITTA == 10
\* the const generic STACK_DEPTH (64 by default), kept small
STACK_DEPTH == 1

\* ------------------------------------------------------------------ floats
Max2(a, b) == IF a >= b THEN a ELSE b
Min2(a, b) == IF a <= b THEN a ELSE b

\* The non-finite f32 values.  INFINITY and -INFINITY are the integers INF and
\* -INF, beyond every finite value of the model; NAN is a value of its own.
INF == 1000000000
NAN == 2000000000
HALF == ONE \div 2

IsNan(x) == x = NAN
IsInf(x) == x = INF \/ x = -INF
is_finite(x) == ~IsNan(x) /\ ~IsInf(x)
FNeg(x) == IF IsNan(x) THEN NAN ELSE -x
FAbs(x) == IF IsNan(x) THEN NAN ELSE IF x < 0 THEN -x ELSE x
\* a + b: NaN from a NaN operand and from infinities of opposite signs
FAdd(a, b) ==
    IF IsNan(a) \/ IsNan(b) THEN NAN
    ELSE IF IsInf(a) THEN (IF b = -a THEN NAN ELSE a)
    ELSE IF IsInf(b) THEN b
    ELSE a + b
FSub(a, b) == FAdd(a, FNeg(b))
Sign(x) == IF x < 0 THEN -1 ELSE IF x > 0 THEN 1 ELSE 0
\* a * b: NaN from a NaN operand and from zero times infinity
FMulBy(a, b, unit) ==
    IF IsNan(a) \/ IsNan(b) THEN NAN
    ELSE IF IsInf(a) \/ IsInf(b)
         THEN (IF a = 0 \/ b = 0 THEN NAN ELSE Sign(a) * Sign(b) * INF)
    ELSE (a * b) \div unit
FMul(a, b) == FMulBy(a, b, ONE)
\* the comparisons: false whenever an operand is NaN
FLt(a, b) == ~IsNan(a) /\ ~IsNan(b) /\ a < b
FLe(a, b) == ~IsNan(a) /\ ~IsNan(b) /\ a <= b
FGt(a, b) == FLt(b, a)
FGe(a, b) == FLe(b, a)

RECURSIVE NewtonSqrt(_, _)
NewtonSqrt(n, x) ==
    LET y == (x + n \div x) \div 2
    IN IF y >= x THEN x ELSE NewtonSqrt(n, y)

\* floor of the square root
Sqrt(n) == IF n <= 0 THEN 0 ELSE NewtonSqrt(n, n)

VNeg(v) == << -v[1], -v[2], -v[3] >>
VAdd(a, b) == << a[1] + b[1], a[2] + b[2], a[3] + b[3] >>
VSub(a, b) == << a[1] - b[1], a[2] - b[2], a[3] - b[3] >>
VScale(v, s) == << (v[1] * s) \div ONE, (v[2] * s) \div ONE, (v[3] * s) \div ONE >>
Dot3(a, b) == a[1] * b[1] + a[2] * b[2] + a[3] * b[3]
Cross3(a, b) == << a[2] * b[3] - a[3] * b[2],
                   a[3] * b[1] - a[1] * b[3],
                   a[1] * b[2] - a[2] * b[1] >>
Length3(v) == Sqrt(Dot3(v, v))

\* Quat::conjugate: the vector part negated, w kept
Conjugate(q) == << -q[1], -q[2], -q[3], q[4] >>

\* Quat * Vec3 (glam mul_vec3): v * (w*w - b.b) + b * (v.b * 2) + (b x v) * (w * 2),
\* each product brought back to the unit as it is formed
QuatMulVec3(q, v) ==
    LET b  == << q[1], q[2], q[3] >>
        w  == q[4]
        s  == (w * w - Dot3(b, b)) \div ONE
        c  == Cross3(b, v)
        d  == (Dot3(v, b) * 2) \div ONE
        r(i) == (v[i] * s) \div ONE + (b[i] * d) \div ONE
                + (((c[i] \div ONE) * (w * 2)) \div ONE)
    IN << r(1), r(2), r(3) >>

\* 1.0 / x, for the non-zero x the model's inputs hold
Recip(x) == CASE x # 0 -> (ONE * ONE) \div x

\* f32::sin_cos, by its series cut after the x^5 and x^4 terms
SinCos(x) ==
    LET x2 == (x * x) \div ONE
        x3 == (x2 * x) \div ONE
        x4 == (x3 * x) \div ONE
        x5 == (x4 * x) \div ONE
    IN << x - x3 \div 6 + x5 \div 120, ONE - x2 \div 2 + x4 \div 24 >>

\* ------------------------------------------------------------------- graph
EmptyGraph == [id_allocator |-> 0, nodes |-> << >>]

\* A node: its variant, its f32 fields in declaration order, its child ids,
\* and the nested graph of a Node::Graph (EmptyGraph otherwise).
MkNode(kind, f, children, sub) ==
    [kind |-> kind, f |-> f, children |-> children, sub |-> sub]

Prim(kind, f) == MkNode(kind, f, << >>, EmptyGraph)
Op(kind, f, children) == MkNode(kind, f, children, EmptyGraph)

PrimitiveKinds == {"Plane", "Sphere", "Capsule", "RoundedCylinder", "TaperedCapsule",
                   "Cone", "RoundedBox", "Torus", "TorusSector", "BiconvexLens"}
BinaryKinds == {"Union", "Subtract", "Intersect"}
BinarySmoothKinds == {"UnionSmooth", "SubtractSmooth", "IntersectSmooth"}
UnaryKinds == {"Material", "Translate", "Rotate", "Scale"}

HasNode(graph, id) == id \in 0..(Len(graph.nodes) - 1)
get(graph, id) == graph.nodes[id + 1]

\* create_node with `self.id_allocator += 1` left out: every node gets the same id
create_node_without_increment(g, node) ==
    [g  |-> [id_allocator |-> g.id_allocator,
             nodes |-> IF HasNode(g, g.id_allocator)
                       THEN [g.nodes EXCEPT ![g.id_allocator + 1] = node]
                       ELSE Append(g.nodes, node)],
     id |-> g.id_allocator]

create_node(g, node) ==
    [g  |-> [id_allocator |-> g.id_allocator + 1, nodes |-> Append(g.nodes, node)],
     id |-> g.id_allocator]

graph_node(g, sub, root) == create_node(g, MkNode("Graph", << >>, << root >>, sub))

plane(g, p) == create_node(g, Prim("Plane", p))
sphere(g, center, radius) == create_node(g, Prim("Sphere", center \o << radius >>))
rounded_box(g, half_size, rr) == create_node(g, Prim("RoundedBox", half_size \o << rr >>))
torus(g, big_r, small_r) == create_node(g, Prim("Torus", << big_r, small_r >>))
torus_sector(g, big_r, small_r, half_angle) ==
    create_node(g, Prim("TorusSector", << big_r, small_r >> \o SinCos(half_angle)))

\* f32::clamp panics when min > max
ClampPanics(lo, hi) == lo > hi
Clamp(x, lo, hi) == IF x < lo THEN lo ELSE IF x > hi THEN hi ELSE x

biconvex_lens_panics(chord) == ClampPanics(MIN_SAGITTA, chord \div 2)
biconvex_lens(g, lower_sagitta, upper_sagitta, chord) ==
    LET max_sagitta == chord \div 2
        upper == Clamp(upper_sagitta, MIN_SAGITTA, max_sagitta)
        lower == Clamp(lower_sagitta, MIN_SAGITTA, max_sagitta)
    IN create_node(g, Prim("BiconvexLens", << lower, upper, chord >>))

capsule(g, p0, p1, radius) == create_node(g, Prim("Capsule", p0 \o p1 \o << radius >>))
rounded_cylinder(g, cr, hh, rr) == create_node(g, Prim("RoundedCylinder", << cr, hh, rr >>))

tapered_capsule(g, p0, p1, r0, r1) ==
    LET distance == Length3(VSub(p0, p1))
    IN IF distance + r1 <= r0 THEN sphere(g, p0, r0)
       ELSE IF distance + r0 <= r1 THEN sphere(g, p1, r1)
       ELSE create_node(g, Prim("TaperedCapsule", p0 \o p1 \o << r0, r1 >>))

cone(g, radius, height) == create_node(g, Prim("Cone", << radius, height >>))

op_material(g, child, rgb) == create_node(g, Op("Material", rgb, << child >>))
op_binary(g, kind, lhs, rhs) == create_node(g, Op(kind, << >>, << lhs, rhs >>))
op_binary_smooth(g, kind, lhs, rhs, size) ==
    create_node(g, Op(kind, << size >>, << lhs, rhs >>))
op_union_multi(g, children) == create_node(g, Op("UnionMulti", << >>, children))
op_union_multi_smooth(g, children, size) ==
    create_node(g, Op("UnionMultiSmooth", << size >>, children))
op_rotate(g, child, rotation) == create_node(g, Op("Rotate", rotation, << child >>))
op_translate(g, child, translation) ==
    create_node(g, Op("Translate", translation, << child >>))
op_scale(g, child, scale) == create_node(g, Op("Scale", << scale >>, << child >>))

\* op_iso_transform: a Rotate node over the child, a Translate node over that,
\* and the id of the second
op_iso_transform(g, node, rotation, translation) ==
    LET rotated == op_rotate(g, node, rotation)
    IN op_translate(rotated.g, rotated.id, translation)

\* ----------------------------------------------------------------- compiler
\* A Program, and how the compilation ended: "ok", or the panic that ended it.
EmptyProgram == [opcodes |-> << >>, constants |-> << >>, err |-> "ok"]

PushOp(ctx, op) ==
    IF ctx.err # "ok" THEN ctx ELSE [ctx EXCEPT !.opcodes = Append(@, op)]
PushConsts(ctx, cs) ==
    IF ctx.err # "ok" THEN ctx ELSE [ctx EXCEPT !.constants = @ \o cs]

Contains(s, x) == \E i \in 1..Len(s) : s[i] = x

\* size.max(MIN_SMOOTHING) with the clamp left out
smoothing_unclamped(size) == size

\* size.max(MIN_SMOOTHING)
smoothing(size) == Max2(size, MIN_SMOOTHING)

\* the Capsule arm without the test of the endpoints
compile_capsule_as_capsule(ctx, f) ==
    PushConsts(PushConsts(PushOp(ctx, "Capsule"), SubSeq(f, 1, 6)), << f[7] >>)

\* the Capsule arm: points[0], points[1], radius
compile_capsule(ctx, f) ==
    IF SubSeq(f, 1, 3) = SubSeq(f, 4, 6)
    THEN PushConsts(PushConsts(PushOp(ctx, "Sphere"), SubSeq(f, 1, 3)), << f[7] >>)
    ELSE PushConsts(PushConsts(PushOp(ctx, "Capsule"), SubSeq(f, 1, 6)), << f[7] >>)

\* the transform arms before the child: the Push opcode and the inverse transform
open_transform(ctx, k, f) ==
    CASE k = "Translate" -> PushConsts(PushOp(ctx, "PushTranslation"), VNeg(f))
      [] k = "Rotate" -> PushConsts(PushOp(ctx, "PushRotation"), Conjugate(f))
      [] k = "Scale" -> PushConsts(PushOp(ctx, "PushScale"), << Recip(f[1]) >>)

\* the transform arms after the child: the Pop opcode
close_transform(child, k, f) ==
    IF k = "Scale" THEN PushConsts(PushOp(child, "PopScale"), f)
    ELSE PushOp(child, "PopTransform")

\* the nested graph compiled with the path of the graph around it
outer_path(path) == path

\* &mut Vec::new(): the path a nested graph is compiled with
new_path(path) == << >>

RECURSIVE compile_node(_, _, _, _)
RECURSIVE compile_children(_, _, _, _, _, _, _)
RECURSIVE compile_children_after_each(_, _, _, _, _, _, _)

\* the n-ary union arms with the combinator pushed after every child
compile_children_after_each(graph, children, idx, ctx, path, op, cs) ==
    IF idx > Len(children) THEN ctx
    ELSE LET c1 == compile_node(graph, children[idx], ctx, path)
             c2 == PushConsts(PushOp(c1, op), cs)
         IN compile_children_after_each(graph, children, idx + 1, c2, path, op, cs)

compile_children(graph, children, idx, ctx, path, op, cs) ==
    IF idx > Len(children) THEN ctx
    ELSE LET c1 == compile_node(graph, children[idx], ctx, path)
             c2 == IF idx > 1 THEN PushConsts(PushOp(c1, op), cs) ELSE c1
         IN compile_children(graph, children, idx + 1, c2, path, op, cs)

compile_node(graph, root, ctx, path) ==
    IF ctx.err # "ok" THEN ctx
    ELSE IF Contains(path, root) THEN [ctx EXCEPT !.err = "cycle"]
    ELSE IF ~HasNode(graph, root) THEN [ctx EXCEPT !.err = "unwrap_none"]
    ELSE
    LET node == get(graph, root)
        p    == Append(path, root)
        k    == node.kind
        f    == node.f
        ch   == node.children
        first   == compile_node(graph, ch[1], ctx, p)
        second  == compile_node(graph, ch[2], first, p)
        pair(op) == PushOp(second, op)
        smooth  == << smoothing(f[1]) >>
    IN CASE k = "Plane" -> PushConsts(PushOp(ctx, "Plane"), f)
         [] k = "Sphere" -> PushConsts(PushOp(ctx, "Sphere"), f)
         [] k = "Capsule" -> compile_capsule(ctx, f)
         [] k = "RoundedCylinder" -> PushConsts(PushOp(ctx, "RoundedCylinder"), f)
         [] k = "TaperedCapsule" ->
              PushConsts(PushOp(ctx, "TaperedCapsule"),
                         SubSeq(f, 1, 3) \o << f[7] >> \o SubSeq(f, 4, 6) \o << f[8] >>)
         [] k = "Cone" -> PushConsts(PushOp(ctx, "Cone"), f)
         [] k = "RoundedBox" -> PushConsts(PushOp(ctx, "RoundedBox"), f)
         [] k = "Torus" -> PushConsts(PushOp(ctx, "Torus"), f)
         [] k = "TorusSector" -> PushConsts(PushOp(ctx, "TorusSector"), f)
         [] k = "BiconvexLens" -> PushConsts(PushOp(ctx, "BiconvexLens"), f)
         [] k = "Material" -> PushConsts(PushOp(first, "Material"), f)
         [] k = "Union" -> pair("Union")
         [] k = "UnionSmooth" -> PushConsts(pair("UnionSmooth"), smooth)
         [] k = "UnionMulti" ->
              compile_children(graph, ch, 1, ctx, p, "Union", << >>)
         [] k = "UnionMultiSmooth" ->
              compile_children(graph, ch, 1, ctx, p, "UnionSmooth", smooth)
         [] k = "Subtract" -> pair("Subtract")
         [] k = "SubtractSmooth" -> PushConsts(pair("SubtractSmooth"), smooth)
         [] k = "Intersect" -> pair("Intersect")
         [] k = "IntersectSmooth" -> PushConsts(pair("IntersectSmooth"), smooth)
         [] k \in {"Translate", "Rotate", "Scale"} ->
              LET pushed == open_transform(ctx, k, f)
                  child  == compile_node(graph, ch[1], pushed, p)
              IN close_transform(child, k, f)
         [] k = "Graph" -> compile_node(node.sub, ch[1], ctx, new_path(p))

\* compile with the push of End left out
compile_without_end(graph, root) == compile_node(graph, root, EmptyProgram, << >>)

compile(graph, root) == PushOp(compile_node(graph, root, EmptyProgram, << >>), "End")

\* --------------------------------------------------------------- decompiler
\* The decompiler's running state: the graph being rebuilt, the stack of node
\* ids, the transform stack, the ConstantReader's offset, and how it ended
\* ("run" while it runs).  cursors records the offset after each opcode it completed.
DecompileInit ==
    [graph |-> EmptyGraph, stack |-> << >>, transform_stack |-> << >>,
     offset |-> 0, hit_end |-> FALSE, res |-> "run", cursors |-> << >>]

Running(d) == d.res = "run"

\* ConstantReader::read_f32, n times: the values, or BadConstants
CanRead(d, constants, n) == d.offset + n <= Len(constants)
Peek(d, constants, n) == SubSeq(constants, d.offset + 1, d.offset + n)
ReadN(d, constants, n) ==
    IF ~Running(d) THEN d
    ELSE IF CanRead(d, constants, n) THEN [d EXCEPT !.offset = @ + n]
    ELSE [d EXCEPT !.res = "BadConstants"]

\* ConstantReader::skip
Skip(d, n) == IF ~Running(d) THEN d ELSE [d EXCEPT !.offset = @ + n]

\* stack.pop().ok_or(Error::BadStack)?
Top(d) == d.stack[Len(d.stack)]
PopNode(d) ==
    IF ~Running(d) THEN d
    ELSE IF Len(d.stack) = 0 THEN [d EXCEPT !.res = "BadStack"]
    ELSE [d EXCEPT !.stack = SubSeq(@, 1, Len(@) - 1)]

\* stack.push(graph.<constructor>(...)): made is the constructor's result
PushMade(d, made) ==
    IF ~Running(d) THEN d
    ELSE [d EXCEPT !.graph = made.g, !.stack = Append(@, made.id)]

PushTransform(d, t) ==
    IF ~Running(d) THEN d ELSE [d EXCEPT !.transform_stack = Append(@, t)]

DecPrimitive(d, constants, n, made) ==
    LET d1 == ReadN(d, constants, n)
    IN IF Running(d1) THEN PushMade(d1, made) ELSE d1

DecBinary(d, kind) ==
    LET d1 == PopNode(d)
        d2 == PopNode(d1)
    IN IF Running(d2) THEN PushMade(d2, op_binary(d.graph, kind, Top(d1), Top(d))) ELSE d2

DecBinarySmooth(d, constants, kind) ==
    LET d1 == PopNode(d)
        d2 == PopNode(d1)
        d3 == ReadN(d2, constants, 1)
    IN IF Running(d3)
       THEN PushMade(d3, op_binary_smooth(d.graph, kind, Top(d1), Top(d),
                                          Peek(d2, constants, 1)[1]))
       ELSE d3

MakeSphere(g, c) == sphere(g, SubSeq(c, 1, 3), c[4])
MakeRoundedBox(g, c) == rounded_box(g, SubSeq(c, 1, 3), c[4])
MakeRoundedCylinder(g, c) == rounded_cylinder(g, c[1], c[2], c[3])
MakeCone(g, c) == cone(g, c[1], c[2])
MakeTaperedCapsule(g, c) == tapered_capsule(g, SubSeq(c, 1, 3), SubSeq(c, 5, 7), c[4], c[8])
MakeBiconvexLens(g, c) == biconvex_lens(g, c[1], c[2], c[3])
MakeCapsule(g, c) == capsule(g, SubSeq(c, 1, 3), SubSeq(c, 4, 6), c[7])
MakeTorus(g, c) == torus(g, c[1], c[2])
MakeTorusSector(g, c) == torus_sector(g, c[1], c[2], c[3])
MakePlane(g, c) == plane(g, c)

\* one iteration of decompile's loop, for an opcode other than End
DecompileOp(d, constants, opcode) ==
    CASE opcode = "Sphere" -> DecPrimitive(d, constants, 4, MakeSphere(d.graph, Peek(d, constants, 4)))
      [] opcode = "Union" -> DecBinary(d, "Union")
      [] opcode = "UnionSmooth" -> DecBinarySmooth(d, constants, "UnionSmooth")
      [] opcode = "Intersect" -> DecBinary(d, "Intersect")
      [] opcode = "IntersectSmooth" -> DecBinarySmooth(d, constants, "IntersectSmooth")
      [] opcode = "Subtract" -> DecBinary(d, "Subtract")
      [] opcode = "SubtractSmooth" -> DecBinarySmooth(d, constants, "SubtractSmooth")
      [] opcode = "RoundedBox" -> DecPrimitive(d, constants, 4, MakeRoundedBox(d.graph, Peek(d, constants, 4)))
      [] opcode = "RoundedCylinder" -> DecPrimitive(d, constants, 3, MakeRoundedCylinder(d.graph, Peek(d, constants, 3)))
      [] opcode = "Cone" -> DecPrimitive(d, constants, 2, MakeCone(d.graph, Peek(d, constants, 2)))
      [] opcode = "TaperedCapsule" -> DecPrimitive(d, constants, 8, MakeTaperedCapsule(d.graph, Peek(d, constants, 8)))
      [] opcode = "BiconvexLens" ->
           LET d1 == ReadN(d, constants, 3)
           IN IF Running(d1) /\ biconvex_lens_panics(Peek(d, constants, 3)[3])
              THEN [d1 EXCEPT !.res = "panic"]
              ELSE DecPrimitive(d, constants, 3, MakeBiconvexLens(d.graph, Peek(d, constants, 3)))
      [] opcode = "Capsule" -> DecPrimitive(d, constants, 7, MakeCapsule(d.graph, Peek(d, constants, 7)))
      [] opcode = "Torus" -> DecPrimitive(d, constants, 2, MakeTorus(d.graph, Peek(d, constants, 2)))
      [] opcode = "TorusSector" -> DecPrimitive(d, constants, 3, MakeTorusSector(d.graph, Peek(d, constants, 3)))
      [] opcode = "Plane" -> DecPrimitive(d, constants, 4, MakePlane(d.graph, Peek(d, constants, 4)))
      [] opcode = "Material" ->
           LET d1 == PopNode(d)
               d2 == ReadN(d1, constants, 3)
           IN IF Running(d2)
              THEN PushMade(d2, op_material(d.graph, Top(d), Peek(d1, constants, 3)))
              ELSE d2
      [] opcode = "PushScale" -> Skip(d, 1)
      [] opcode = "PopScale" ->
           LET d1 == PopNode(d)
               d2 == ReadN(d1, constants, 1)
           IN IF Running(d2)
              THEN PushMade(d2, op_scale(d.graph, Top(d), Peek(d1, constants, 1)[1]))
              ELSE d2
      [] opcode = "PushTranslation" ->
           LET d1 == ReadN(d, constants, 3)
           IN PushTransform(d1, [kind |-> "Translation",
                                 v |-> VNeg(Peek(d, constants, 3))])
      [] opcode = "PushRotation" ->
           LET d1 == ReadN(d, constants, 4)
           IN PushTransform(d1, [kind |-> "Rotation",
                                 v |-> Conjugate(Peek(d, constants, 4))])
      [] opcode = "PopTransform" ->
           LET d1 == PopNode(d)
           IN IF ~Running(d1) THEN d1
              ELSE IF Len(d1.transform_stack) = 0 THEN [d1 EXCEPT !.res = "BadStack"]
              ELSE LET t  == d1.transform_stack[Len(d1.transform_stack)]
                       d2 == [d1 EXCEPT !.transform_stack = SubSeq(@, 1, Len(@) - 1)]
                   IN IF t.kind = "Translation"
                      THEN PushMade(d2, op_translate(d.graph, Top(d), t.v))
                      ELSE PushMade(d2, op_rotate(d.graph, Top(d), t.v))

\* an opcode completed: the reader's offset after it is recorded
DecompileDone(d) == IF ~Running(d) THEN d ELSE [d EXCEPT !.cursors = Append(@, d.offset)]

\* the for loop over program.opcodes, from opcode i on
RECURSIVE DecompileLoop(_, _, _, _)
DecompileLoop(opcodes, constants, d, i) ==
    IF ~Running(d) \/ i > Len(opcodes) THEN d
    ELSE IF opcodes[i] = "End"
         THEN DecompileDone([d EXCEPT !.hit_end = TRUE])
         ELSE LET d1 == DecompileOp(d, constants, opcodes[i])
              IN DecompileLoop(opcodes, constants, DecompileDone(d1), i + 1)

\* decompile: res is "Ok" (with graph and root), "BadStack", "BadConstants",
\* "BadProgram", or "panic" when a constructor it calls panics
decompile(opcodes, constants) ==
    LET d == DecompileLoop(opcodes, constants, DecompileInit, 1)
        out(res) == [res |-> res, graph |-> d.graph,
                     root |-> IF Len(d.stack) > 0 THEN Top(d) ELSE 0,
                     cursors |-> d.cursors]
    IN IF ~Running(d) THEN out(d.res)
       ELSE IF Len(d.stack) # 1 THEN out("BadStack")
       ELSE IF Len(d.transform_stack) # 0 THEN out("BadStack")
       ELSE IF ~d.hit_end THEN out("BadProgram")
       ELSE IF d.offset # Len(constants) THEN out("BadProgram")
       ELSE out("Ok")

\* ------------------------------------------------------------- disassembler
\* the number of constants disassemble reads for an opcode
DisassembleReads(opcode) ==
    CASE opcode \in {"Sphere", "RoundedBox", "Plane", "PushRotation"} -> 4
      [] opcode \in {"Union", "Intersect", "Subtract", "End", "PopScale", "PopTransform"} -> 0
      [] opcode \in {"UnionSmooth", "IntersectSmooth", "SubtractSmooth", "PushScale"} -> 1
      [] opcode \in {"RoundedCylinder", "BiconvexLens", "TorusSector", "Material",
                     "PushTranslation"} -> 3
      [] opcode \in {"Cone", "Torus"} -> 2
      [] opcode = "TaperedCapsule" -> 8
      [] opcode = "Capsule" -> 7

\* disassemble, from opcode i on with the reader at offset: Ok or BadConstants,
\* and the offset after each opcode
RECURSIVE DisassembleLoop(_, _, _, _, _)
DisassembleLoop(opcodes, constants, i, offset, cursors) ==
    IF i > Len(opcodes) THEN [res |-> "Ok", cursors |-> cursors]
    ELSE LET n == DisassembleReads(opcodes[i])
         IN IF offset + n > Len(constants)
            THEN [res |-> "BadConstants", cursors |-> cursors]
            ELSE IF opcodes[i] = "End"
            THEN [res |-> "Ok", cursors |-> Append(cursors, offset)]
            ELSE DisassembleLoop(opcodes, constants, i + 1, offset + n,
                                 Append(cursors, offset + n))

disassemble(opcodes, constants) == DisassembleLoop(opcodes, constants, 1, 0, << >>)

\* -------------------------------------------------------------- interpreter
\* A signed distance: the sdf function applied, the position it was evaluated
\* at (primitives), the constants it read, and the popped distances it combines.
Sd(fn, pos, c, args) == [fn |-> fn, pos |-> pos, c |-> c, args |-> args]

\* MaybeUninit::zeroed(): every slot of a new stack is the all-zero value
ZeroSd == Sd("zero", << >>, << >>, << >>)
ZeroVec3 == << 0, 0, 0 >>

\* InterpreterContext::<SD, depth>::new (opcodes and constants are the program's)
new_context(depth) ==
    [stack |-> [i \in 1..depth |-> ZeroSd], stack_ptr |-> 0, constant_idx |-> 0,
     position_stack |-> [i \in 1..depth |-> ZeroVec3], position_stack_ptr |-> 0]

NewContext == new_context(STACK_DEPTH)

\* reset with `self.constant_idx = 0` left out
reset_keeping_constant_idx(ctx) == [ctx EXCEPT !.stack_ptr = 0, !.position_stack_ptr = 0]

\* InterpreterContext::reset
reset(ctx) == [ctx EXCEPT !.stack_ptr = 0, !.position_stack_ptr = 0, !.constant_idx = 0]

\* The state of one interpret_internal call: the context, the locals pc and
\* current_position, and the panic that ended it ("none" while it runs).
\* cursors records constant_idx after each opcode it completed.
Alive(r) == r.panic = "none"
Panic(r, what) == [r EXCEPT !.panic = what]

\* float32(), n times: constants[constant_idx] is bounds-checked
Consts(r, constants, n) == SubSeq(constants, r.constant_idx + 1, r.constant_idx + n)
float32s(r, constants, n) ==
    IF ~Alive(r) THEN r
    ELSE IF r.constant_idx + n > Len(constants) THEN Panic(r, "constants_out_of_bounds")
    ELSE [r EXCEPT !.constant_idx = @ + n]

push_sd(r, v) ==
    IF ~Alive(r) THEN r
    ELSE IF r.stack_ptr >= Len(r.stack) THEN Panic(r, "stack_overflow")
    ELSE [r EXCEPT !.stack[r.stack_ptr + 1] = v, !.stack_ptr = @ + 1]

\* the stacks are arrays of STACK_DEPTH slots: an index past the array panics
\* stack_ptr -= 1 on zero overflows (a panic with overflow checks, and without
\* them an index far out of bounds, a panic too)
TopSd(r) == r.stack[r.stack_ptr]
pop_sd_unchecked(r) ==
    IF ~Alive(r) THEN r
    ELSE IF r.stack_ptr = 0 THEN Panic(r, "stack_underflow")
    ELSE [r EXCEPT !.stack_ptr = @ - 1]

\* push_position on a position stack one slot short
push_position_one_short(r, pos) ==
    IF ~Alive(r) THEN r
    ELSE IF r.position_stack_ptr >= Len(r.position_stack) - 1
    THEN Panic(r, "position_overflow")
    ELSE [r EXCEPT !.position_stack[r.position_stack_ptr + 1] = pos,
                   !.position_stack_ptr = @ + 1]

push_position(r, pos) ==
    IF ~Alive(r) THEN r
    ELSE IF r.position_stack_ptr >= Len(r.position_stack) THEN Panic(r, "position_overflow")
    ELSE [r EXCEPT !.position_stack[r.position_stack_ptr + 1] = pos,
                   !.position_stack_ptr = @ + 1]

TopPosition(r) == r.position_stack[r.position_stack_ptr]

\* PopTransform without the assignment to current_position
pop_position_keeping_current(r) ==
    IF ~Alive(r) THEN r
    ELSE IF r.position_stack_ptr = 0 THEN Panic(r, "position_underflow")
    ELSE [r EXCEPT !.position_stack_ptr = @ - 1]

\* current_position = ctx.pop_position_unchecked()
pop_position_unchecked(r) ==
    IF ~Alive(r) THEN r
    ELSE IF r.position_stack_ptr = 0 THEN Panic(r, "position_underflow")
    ELSE [r EXCEPT !.position_stack_ptr = @ - 1, !.current_position = TopPosition(r)]

SetPosition(r, pos) == IF ~Alive(r) THEN r ELSE [r EXCEPT !.current_position = pos]

\* the interpreter reading what the disassembler reads
InterpreterReadsAsDisassembled(opcode) == DisassembleReads(opcode)

\* the number of constants the interpreter reads for an opcode
InterpreterReads(opcode) ==
    CASE opcode \in {"Plane", "Sphere", "RoundedBox", "TorusSector", "PushRotation"} -> 4
      [] opcode = "Capsule" -> 7
      [] opcode = "TaperedCapsule" -> 8
      [] opcode \in {"RoundedCylinder", "BiconvexLens", "Material", "PushTranslation"} -> 3
      [] opcode \in {"Cone", "Torus"} -> 2
      [] opcode \in {"UnionSmooth", "SubtractSmooth", "IntersectSmooth",
                     "PushScale", "PopScale"} -> 1
      [] opcode \in {"Union", "Subtract", "Intersect", "PopTransform", "End"} -> 0

SdfName(opcode) ==
    CASE opcode = "Plane" -> "sd_plane"
      [] opcode = "Sphere" -> "sd_sphere"
      [] opcode = "Capsule" -> "sd_capsule"
      [] opcode = "RoundedCylinder" -> "sd_rounded_cylinder"
      [] opcode = "TaperedCapsule" -> "sd_tapered_capsule"
      [] opcode = "Cone" -> "sd_cone"
      [] opcode = "RoundedBox" -> "sd_rounded_box"
      [] opcode = "Torus" -> "sd_torus"
      [] opcode = "TorusSector" -> "sd_torus_sector"
      [] opcode = "BiconvexLens" -> "sd_biconvex_lens"
      [] opcode = "Material" -> "sd_material"
      [] opcode = "Union" -> "sd_op_union"
      [] opcode = "UnionSmooth" -> "sd_op_union_smooth"
      [] opcode = "Subtract" -> "sd_op_subtract"
      [] opcode = "SubtractSmooth" -> "sd_op_subtract_smooth"
      [] opcode = "Intersect" -> "sd_op_intersect"
      [] opcode = "IntersectSmooth" -> "sd_op_intersect_smooth"

PrimitiveOpcodes == {"Plane", "Sphere", "Capsule", "RoundedCylinder", "TaperedCapsule",
                     "Cone", "RoundedBox", "Torus", "TorusSector", "BiconvexLens"}
CombinatorOpcodes == {"Union", "Subtract", "Intersect"}
SmoothOpcodes == {"UnionSmooth", "SubtractSmooth", "IntersectSmooth"}
Opcodes == PrimitiveOpcodes \cup CombinatorOpcodes \cup SmoothOpcodes \cup
           {"Material", "PushTranslation", "PushRotation", "PopTransform",
            "PushScale", "PopScale", "End"}

\* one arm of interpret_internal's match, for an opcode other than End
InterpretOp(r, constants, opcode) ==
    LET n == InterpreterReads(opcode)
    IN CASE opcode \in PrimitiveOpcodes ->
              push_sd(float32s(r, constants, n),
                      Sd(SdfName(opcode), r.current_position, Consts(r, constants, n), << >>))
         [] opcode = "Material" ->
              LET r1 == pop_sd_unchecked(r)
              IN push_sd(float32s(r1, constants, n),
                         Sd(SdfName(opcode), << >>, Consts(r1, constants, n), << TopSd(r) >>))
         [] opcode \in CombinatorOpcodes ->
              LET r1 == pop_sd_unchecked(r)
                  r2 == pop_sd_unchecked(r1)
              IN push_sd(r2, Sd(SdfName(opcode), << >>, << >>, << TopSd(r), TopSd(r1) >>))
         [] opcode \in SmoothOpcodes ->
              LET r1 == pop_sd_unchecked(r)
                  r2 == pop_sd_unchecked(r1)
              IN push_sd(float32s(r2, constants, n),
                         Sd(SdfName(opcode), << >>, Consts(r2, constants, n),
                            << TopSd(r), TopSd(r1) >>))
         [] opcode = "PushTranslation" ->
              LET r1 == float32s(r, constants, n)
              IN SetPosition(push_position(r1, r.current_position),
                             VAdd(r.current_position, Consts(r, constants, n)))
         [] opcode = "PopTransform" -> pop_position_unchecked(r)
         [] opcode = "PushRotation" ->
              LET r1 == float32s(r, constants, n)
              IN SetPosition(push_position(r1, r.current_position),
                             QuatMulVec3(Consts(r, constants, n), r.current_position))
         [] opcode = "PushScale" ->
              LET r1 == float32s(r, constants, n)
              IN SetPosition(push_position(r1, r.current_position),
                             VScale(r.current_position, Consts(r, constants, n)[1]))
         [] opcode = "PopScale" ->
              LET r1 == pop_position_unchecked(r)
                  r2 == float32s(r1, constants, n)
                  r3 == pop_sd_unchecked(r2)
              IN push_sd(r3, Sd("copy_with_distance", << >>, Consts(r1, constants, n),
                                << TopSd(r2) >>))

\* an opcode completed: constant_idx after it is recorded
InterpretDone(r) ==
    IF ~Alive(r) THEN r ELSE [r EXCEPT !.cursors = Append(@, r.constant_idx)]

\* the loop of interpret_internal: opcodes[pc] is bounds-checked
RECURSIVE InterpretLoop(_, _, _)
InterpretLoop(opcodes, constants, r) ==
    IF ~Alive(r) THEN r
    ELSE IF r.pc >= Len(opcodes) THEN Panic(r, "opcodes_out_of_bounds")
    ELSE LET opcode == opcodes[r.pc + 1]
             r0 == [r EXCEPT !.pc = @ + 1]
         IN IF opcode = "End"
            THEN InterpretDone(r0)
            ELSE LET r1 == InterpretOp(r0, constants, opcode)
                 IN InterpretLoop(opcodes, constants, InterpretDone(r1))

interpret_internal(opcodes, constants, ctx, position) ==
    LET c == reset(ctx)
    IN InterpretLoop(opcodes, constants,
         [stack |-> c.stack, stack_ptr |-> c.stack_ptr, constant_idx |-> c.constant_idx,
          position_stack |-> c.position_stack, position_stack_ptr |-> c.position_stack_ptr,
          current_position |-> position, pc |-> 0, panic |-> "none", cursors |-> << >>,
          at_start |-> << c.stack_ptr, c.position_stack_ptr, c.constant_idx >>])

ContextOf(r) ==
    [stack |-> r.stack, stack_ptr |-> r.stack_ptr, constant_idx |-> r.constant_idx,
     position_stack |-> r.position_stack, position_stack_ptr |-> r.position_stack_ptr]

\* interpret: interpret_internal, then pop_sd.  out is "Some" (with value),
\* "None", or "panic"; run is the interpret_internal call.  On an empty stack
\* pop_sd's stack_ptr -= 1 panics with overflow checks and wraps without them
\* (kept as -1), and then stack.get gives None.
interpret(opcodes, constants, ctx, position, overflow_checks) ==
    LET r == interpret_internal(opcodes, constants, ctx, position)
        c == ContextOf(r)
    IN IF ~Alive(r) THEN [out |-> "panic", value |-> ZeroSd, ctx |-> c, run |-> r]
       ELSE IF r.stack_ptr = 0
       THEN IF overflow_checks
            THEN [out |-> "panic", value |-> ZeroSd, ctx |-> c,
                  run |-> Panic(r, "stack_underflow")]
            ELSE [out |-> "None", value |-> ZeroSd,
                  ctx |-> [c EXCEPT !.stack_ptr = -1], run |-> r]
       ELSE [out |-> "Some", value |-> TopSd(r),
             ctx |-> [c EXCEPT !.stack_ptr = @ - 1], run |-> r]

\* ------------------------------------------------------------ state machine
VARIABLES
    graph,      \* the caller's Graph
    proper,     \* history: every NodeId passed so far was returned by this graph
                \* before the call, and no node was edited through get_mut
    phase,      \* "build", "compiled" (program holds compile's outcome),
                \* "decompiled" (roundtrip holds decompile's and the recompilation),
                \* "disassembled" (listing holds disassemble's)
    root,       \* the NodeId given to compile
    program,    \* compile's outcome
    ctx,        \* the InterpreterContext made for program
    queries,    \* interpret calls made on ctx: 0, 1, or 2 for two and more
    last,       \* the last interpret call: its position and what it returned
    roundtrip,  \* decompile(program) and compile of the graph it returned
    listing,    \* disassemble(program)
    raw,        \* a Program assembled from raw opcodes and constants
    rawphase,   \* "edit", "decompiled", "interpreted"
    rawdec,     \* decompile(raw)'s result
    rawrun,     \* interpret(raw) on a new context
    grid3,      \* a Grid3<f32> of the caller, and the set_truncated calls made on it
    meshing,    \* a mesh_from_sdf_func call: its arguments and how it ended
    sizing,     \* a sdf_bb_and_resolution call: its arguments and what it returned
    tracer,     \* a sphere_tracing::trace call: its arguments, samples and result
    wire,       \* raw opcodes and constants, Program::from_raw and as_raw of them
    mesh,       \* a TriangleMesh, and the post-mesh passes made on it
    scene,      \* a second graph with its ids as returned, compiled and evaluated
    fill        \* a Grid3<f32> filled span by span by concurrent workers, or set
                \* cell by cell, and a gradient read from it

vars == << graph, proper, phase, root, program, ctx, queries, last, roundtrip,
           listing, raw, rawphase, rawdec, rawrun, grid3, meshing, sizing, tracer,
           wire, mesh, scene, fill >>

NoRun ==
    [stack |-> << >>, stack_ptr |-> 0, constant_idx |-> 0, position_stack |-> << >>,
     position_stack_ptr |-> 0, current_position |-> ZeroVec3, pc |-> 0,
     panic |-> "none", cursors |-> << >>, at_start |-> << >>]
NoLast == [position |-> ZeroVec3, out |-> "idle", value |-> ZeroSd, run |-> NoRun]
NoListing == [res |-> "idle", cursors |-> << >>]
NoDecompile == [res |-> "idle", graph |-> EmptyGraph, root |-> 0, cursors |-> << >>]
NoRoundtrip == [dec |-> NoDecompile, recompiled |-> EmptyProgram]
NoSdf == [row |-> << >>, rise |-> 0]
NoGrid == [phase |-> "none", size |-> << 0, 0, 0 >>, data |-> << >>, sampled |-> << >>,
           sdf |-> NoSdf, truncate_dist |-> 0, first |-> << >>]
NoMeshing == [res |-> "idle", resolution |-> << 0, 0, 0 >>, sdf |-> NoSdf, scale |-> 0,
              data |-> << >>, sampled |-> << >>]
NoOptions == [mean_resolution |-> 0, max_resolution |-> 0, min_resolution |-> 0]
NoSizing == [res |-> "idle", bb |-> << 0, 0, 0 >>, options |-> NoOptions,
             resolution |-> << 0, 0, 0 >>, grid_resolution |-> << 0, 0, 0 >>]
NanVec3 == << NAN, NAN, NAN >>
\* ClosestHit::miss()
miss == [t |-> INF, pos |-> NanVec3, dist |-> INF, is_hit |-> FALSE]
NoField == [kind |-> "none", table |-> << >>, center |-> ZeroVec3, radius |-> 0]
NoTrace == [res |-> "idle", sd |-> NoField,
            ray |-> [origin |-> ZeroVec3, dir |-> ZeroVec3],
            t_range |-> << 0, 0 >>, opt |-> [max_steps |-> 0, step_constant |-> 0],
            samples |-> << >>, hit |-> miss]
NoFromRaw == [res |-> "idle", opcodes |-> << >>, constants |-> << >>, number |-> 0]
\* TriangleMesh::default()
EmptyMesh == [indices |-> << >>, positions |-> << >>, normals |-> << >>, colors |-> << >>]
NoMesh == [pass |-> "none", passes |-> 0, mesh |-> EmptyMesh, before |-> EmptyMesh]
NoResult == [out |-> "idle", cursors |-> << >>, stack_ptr |-> 0,
             position_stack_ptr |-> 0, pc |-> 0, panic |-> "none"]
NoDual == [d |-> NoResult, rgbd |-> NoResult, distance |-> 0,
           rgbd_value |-> << 0, 0, 0, 0 >>]
NoScene == [phase |-> "build", graph |-> EmptyGraph, ids |-> << >>, made |-> << >>,
            root |-> 0, program |-> EmptyProgram, position |-> ZeroVec3,
            out |-> "idle", value |-> ZeroSd, run |-> NoRun, dual |-> NoDual]
NoGradient == [res |-> "idle", build |-> "none", p |-> << 0, 0, 0 >>,
               clamped |-> << >>, reads |-> << >>, fast |-> << >>]
NoFill == [phase |-> "none", size |-> << 0, 0, 0 >>, data |-> << >>, at |-> << >>,
           writes |-> << >>, evals |-> << >>, by |-> << >>, spans |-> << >>,
           sdf |-> NoSdf, truncate_dist |-> 0, grad |-> NoGradient]
NoWire == [phase |-> "edit", opcodes |-> << >>, constants |-> << >>, parsed |-> NoFromRaw,
           raw |-> [opcodes |-> << >>, constants |-> << >>], again |-> NoFromRaw]

Init ==
    /\ graph = EmptyGraph
    /\ proper = TRUE
    /\ phase = "build"
    /\ root = 0
    /\ program = EmptyProgram
    /\ ctx = NewContext
    /\ queries = 0
    /\ last = NoLast
    /\ roundtrip = NoRoundtrip
    /\ listing = NoListing
    /\ raw = [opcodes |-> << >>, constants |-> << >>]
    /\ rawphase = "edit"
    /\ rawdec = NoDecompile
    /\ rawrun = NoLast
    /\ grid3 = NoGrid
    /\ meshing = NoMeshing
    /\ sizing = NoSizing
    /\ tracer = NoTrace
    /\ wire = NoWire
    /\ mesh = NoMesh
    /\ scene = NoScene
    /\ fill = NoFill

\* the variables of the meshing pipeline, the tracer and the wire format
MeshSceneUnchanged == UNCHANGED << mesh, scene, fill >>
PipelineUnchanged ==
    UNCHANGED << grid3, meshing, sizing, tracer, wire, mesh, scene, fill >>
RawUnchanged == UNCHANGED << raw, rawphase, rawdec, rawrun >>
RunUnchanged ==
    UNCHANGED << phase, root, program, ctx, queries, last, roundtrip, listing >>

\* --- the constructors' arguments
AxisX == << ONE, 0, 0 >>
AxisY2 == << 0, 2 * ONE, 0 >>
PlaneArgs == { << ONE, 0, 0, 0 >> }
CapsuleEnds == { << ZeroVec3, ZeroVec3 >>, << ZeroVec3, AxisX >> }
TaperedRadii == { << ONE, HALF >>, << 3 * ONE, HALF >> }
SmoothSizes == { -ONE, 0, HALF }
Rgb == << ONE, HALF, 0 >>
RotationY180 == << 0, ONE, 0, 0 >>
Points == { ZeroVec3, << 2 * ONE, 0, 0 >> }

\* the ids this graph has returned: each is the key of the node it was returned for
OwnIds == 0..(Len(graph.nodes) - 1)
\* the node made last
LastId == { id \in OwnIds : id = graph.id_allocator - 1 }
\* any NodeId a caller can hold: one of this graph's, or one another graph returned
AnyIds == 0..MaxApiNodes

RECURSIVE SeqsUpTo(_, _)
SeqsUpTo(S, n) ==
    IF n = 0 THEN { << >> }
    ELSE LET shorter == SeqsUpTo(S, n - 1)
         IN shorter \cup { Append(q, x) : q \in { t \in shorter : Len(t) = n - 1 }, x \in S }

\* a constructor call: the graph gets the node, and the call is proper when its
\* NodeId arguments are ids this graph returned
Construct(made, args, limit) ==
    /\ phase = "build"
    /\ graph.id_allocator < limit
    /\ graph' = made.g
    /\ proper' = (proper /\ \A i \in 1..Len(args) : args[i] \in OwnIds)
    /\ RunUnchanged
    /\ RawUnchanged
    /\ PipelineUnchanged

AddPlane(limit) == \E p \in PlaneArgs : Construct(plane(graph, p), << >>, limit)
AddSphere(limit) == Construct(sphere(graph, ZeroVec3, ONE), << >>, limit)
AddCapsule(limit) ==
    \E e \in CapsuleEnds : Construct(capsule(graph, e[1], e[2], HALF), << >>, limit)
AddRoundedCylinder(limit) ==
    Construct(rounded_cylinder(graph, ONE, ONE, ONE \div 4), << >>, limit)
AddTaperedCapsule(limit) ==
    \E r \in TaperedRadii :
        Construct(tapered_capsule(graph, ZeroVec3, AxisY2, r[1], r[2]), << >>, limit)
AddCone(limit) == Construct(cone(graph, ONE, 2 * ONE), << >>, limit)
AddRoundedBox(limit) ==
    Construct(rounded_box(graph, << ONE, ONE, ONE >>, ONE \div 10), << >>, limit)
AddTorus(limit) == Construct(torus(graph, ONE, HALF), << >>, limit)
AddTorusSector(limit) == Construct(torus_sector(graph, ONE, HALF, 0), << >>, limit)
AddBiconvexLens(limit) ==
    /\ ~biconvex_lens_panics(ONE)
    /\ Construct(biconvex_lens(graph, HALF, 3 * ONE, ONE), << >>, limit)

OpMaterial(ids, limit) ==
    \E c \in ids : Construct(op_material(graph, c, Rgb), << c >>, limit)
OpBinary(ids, limit) ==
    \E k \in BinaryKinds, l \in ids, r \in ids :
        Construct(op_binary(graph, k, l, r), << l, r >>, limit)
OpBinarySmooth(ids, limit) ==
    \E k \in BinarySmoothKinds, l \in ids, r \in ids, size \in SmoothSizes :
        Construct(op_binary_smooth(graph, k, l, r, size), << l, r >>, limit)
OpUnionMulti(ids, limit) ==
    \E cs \in SeqsUpTo(ids, MaxChildren) :
        Construct(op_union_multi(graph, cs), cs, limit)
OpUnionMultiSmooth(ids, limit) ==
    \E cs \in SeqsUpTo(ids, MaxChildren), size \in SmoothSizes :
        Construct(op_union_multi_smooth(graph, cs, size), cs, limit)
OpTranslate(ids, limit) ==
    \E c \in ids : Construct(op_translate(graph, c, AxisX), << c >>, limit)
OpRotate(ids, limit) ==
    \E c \in ids : Construct(op_rotate(graph, c, RotationY180), << c >>, limit)
OpScale(ids, limit) ==
    \E c \in ids : Construct(op_scale(graph, c, 2 * ONE), << c >>, limit)
\* Graph::graph with a clone of this graph as the nested graph; its root is an
\* id of the nested graph, not a child link of this one
AddGraph(ids, limit) ==
    \E r \in ids : Construct(graph_node(graph, graph, r), << r >>, limit)

\* a graph built elsewhere, and Graph::graph with it as the nested graph: its
\* NodeIds are numbers the outer graph uses too
OtherGraph == sphere(sphere(EmptyGraph, ZeroVec3, ONE).g, AxisX, HALF).g
AddOtherGraph(limit) ==
    \E r \in 0..1 : Construct(graph_node(graph, OtherGraph, r), << >>, limit)

\* compile(&graph, root)
Compile(roots) ==
    /\ phase = "build"
    /\ \E r \in roots :
         /\ root' = r
         /\ program' = compile(graph, r)
    /\ phase' = "compiled"
    /\ ctx' = NewContext
    /\ UNCHANGED << graph, proper, queries, last, roundtrip, listing >>
    /\ RawUnchanged
    /\ PipelineUnchanged

\* graph.get_mut(id), and a child link of the node set to another NodeId
GetMutSetChild ==
    /\ phase = "build"
    /\ \E id \in OwnIds, t \in AnyIds :
         \E i \in 1..Len(get(graph, id).children) :
            graph' = [graph EXCEPT !.nodes[id + 1].children[i] = t]
    /\ proper' = FALSE
    /\ RunUnchanged
    /\ RawUnchanged
    /\ PipelineUnchanged

\* Interpreter::interpret(&mut ctx, position) on the context kept between calls
Interpret ==
    /\ phase = "compiled"
    /\ program.err = "ok"
    /\ last.out # "panic"
    /\ \E position \in Points, overflow_checks \in BOOLEAN :
         LET res == interpret(program.opcodes, program.constants, ctx, position,
                              overflow_checks)
         IN /\ ctx' = res.ctx
            /\ last' = [position |-> position, out |-> res.out, value |-> res.value,
                        run |-> res.run]
    /\ queries' = Min2(queries + 1, 2)
    /\ UNCHANGED << graph, proper, phase, root, program, roundtrip, listing >>
    /\ RawUnchanged
    /\ PipelineUnchanged

\* decompile(&program, &program.constants), and compile of what it returned
Decompile ==
    /\ phase = "compiled"
    /\ program.err = "ok"
    /\ queries = 0
    /\ LET dec == decompile(program.opcodes, program.constants)
       IN roundtrip' = [dec |-> dec,
                        recompiled |-> IF dec.res = "Ok" THEN compile(dec.graph, dec.root)
                                       ELSE EmptyProgram]
    /\ phase' = "decompiled"
    /\ UNCHANGED << graph, proper, root, program, ctx, queries, last, listing >>
    /\ RawUnchanged
    /\ PipelineUnchanged

\* program.disassemble()
Disassemble ==
    /\ phase = "compiled"
    /\ program.err = "ok"
    /\ queries = 0
    /\ listing' = disassemble(program.opcodes, program.constants)
    /\ phase' = "disassembled"
    /\ UNCHANGED << graph, proper, root, program, ctx, queries, last, roundtrip >>
    /\ RawUnchanged
    /\ PipelineUnchanged

\* The graph built with the ids it returned, compiled, and the program
\* interpreted, decompiled or disassembled.  The root is the node made last: a node
\* made before it is the last node of an earlier state of the same graph, and
\* compile reads only the nodes its root reaches.
Next ==
    \/ AddPlane(MaxNodes)
    \/ AddSphere(MaxNodes)
    \/ AddCapsule(MaxNodes)
    \/ AddRoundedCylinder(MaxNodes)
    \/ AddTaperedCapsule(MaxNodes)
    \/ AddCone(MaxNodes)
    \/ AddRoundedBox(MaxNodes)
    \/ AddTorus(MaxNodes)
    \/ AddTorusSector(MaxNodes)
    \/ AddBiconvexLens(MaxNodes)
    \/ OpMaterial(OwnIds, MaxNodes)
    \/ OpBinary(OwnIds, MaxNodes)
    \/ OpBinarySmooth(OwnIds, MaxNodes)
    \/ OpUnionMulti(OwnIds, MaxNodes)
    \/ OpUnionMultiSmooth(OwnIds, MaxNodes)
    \/ OpTranslate(OwnIds, MaxNodes)
    \/ OpRotate(OwnIds, MaxNodes)
    \/ OpScale(OwnIds, MaxNodes)
    \/ AddGraph(OwnIds, MaxNodes)
    \/ Compile(LastId)
    \/ Interpret
    \/ Decompile
    \/ Disassemble

Spec == Init /\ [][Next]_vars

\* The public API with any NodeId a caller can hold, and get_mut
NextApi ==
    \/ AddPlane(MaxApiNodes)
    \/ AddSphere(MaxApiNodes)
    \/ AddCapsule(MaxApiNodes)
    \/ AddRoundedCylinder(MaxApiNodes)
    \/ AddTaperedCapsule(MaxApiNodes)
    \/ AddCone(MaxApiNodes)
    \/ AddRoundedBox(MaxApiNodes)
    \/ AddTorus(MaxApiNodes)
    \/ AddTorusSector(MaxApiNodes)
    \/ AddBiconvexLens(MaxApiNodes)
    \/ OpMaterial(AnyIds, MaxApiNodes)
    \/ OpBinary(AnyIds, MaxApiNodes)
    \/ OpBinarySmooth(AnyIds, MaxApiNodes)
    \/ OpUnionMulti(AnyIds, MaxApiNodes)
    \/ OpUnionMultiSmooth(AnyIds, MaxApiNodes)
    \/ OpTranslate(AnyIds, MaxApiNodes)
    \/ OpRotate(AnyIds, MaxApiNodes)
    \/ OpScale(AnyIds, MaxApiNodes)
    \/ AddGraph(AnyIds, MaxApiNodes)
    \/ AddOtherGraph(MaxApiNodes)
    \/ GetMutSetChild
    \/ Compile(AnyIds)

SpecApi == Init /\ [][NextApi]_vars

\* --- programs assembled from raw parts (Program::from_raw, with_constants)
RawValues == { 0, ONE }

PushRawOpcode ==
    /\ rawphase = "edit"
    /\ Len(raw.opcodes) < MaxRawOps
    /\ \E op \in Opcodes : raw' = [raw EXCEPT !.opcodes = Append(@, op)]
    /\ UNCHANGED << graph, proper, rawphase, rawdec, rawrun >>
    /\ RunUnchanged
    /\ PipelineUnchanged

SetRawConstants ==
    /\ rawphase = "edit"
    /\ raw.constants = << >>
    /\ \E n \in 1..MaxRawConsts, v \in RawValues :
         raw' = [raw EXCEPT !.constants = [i \in 1..n |-> v]]
    /\ UNCHANGED << graph, proper, rawphase, rawdec, rawrun >>
    /\ RunUnchanged
    /\ PipelineUnchanged

\* decompile(&raw, &raw.constants): the validation of a program from outside
DecompileRaw ==
    /\ rawphase = "edit"
    /\ rawdec' = decompile(raw.opcodes, raw.constants)
    /\ rawphase' = "decompiled"
    /\ UNCHANGED << graph, proper, raw, rawrun >>
    /\ RunUnchanged
    /\ PipelineUnchanged

\* a program decompile accepted, interpreted on a new context
InterpretRaw ==
    /\ rawphase = "decompiled"
    /\ rawdec.res = "Ok"
    /\ \E position \in Points, overflow_checks \in BOOLEAN :
         LET res == interpret(raw.opcodes, raw.constants, NewContext, position,
                              overflow_checks)
         IN rawrun' = [position |-> position, out |-> res.out, value |-> res.value,
                       run |-> res.run]
    /\ rawphase' = "interpreted"
    /\ UNCHANGED << graph, proper, raw, rawdec >>
    /\ RunUnchanged
    /\ PipelineUnchanged

NextRaw ==
    \/ PushRawOpcode
    \/ SetRawConstants
    \/ DecompileRaw
    \/ InterpretRaw

SpecRaw == Init /\ [][NextRaw]_vars

\* ================================================================== claims
\* The table of constants per opcode, as the specification lists it
TableCount(opcode) ==
    CASE opcode \in {"Plane", "Sphere", "RoundedBox", "TorusSector", "PushRotation"} -> 4
      [] opcode = "Capsule" -> 7
      [] opcode = "TaperedCapsule" -> 8
      [] opcode \in {"RoundedCylinder", "BiconvexLens", "Material", "PushTranslation"} -> 3
      [] opcode \in {"Cone", "Torus"} -> 2
      [] opcode \in SmoothOpcodes \cup {"PushScale", "PopScale"} -> 1
      [] opcode \in CombinatorOpcodes \cup {"PopTransform", "End"} -> 0

RECURSIVE TableSum(_, _)
TableSum(opcodes, i) ==
    IF i > Len(opcodes) THEN 0 ELSE TableCount(opcodes[i]) + TableSum(opcodes, i + 1)

\* what opcode i moved a cursor by, from the cursors after each opcode
Step(cursors, i) == cursors[i] - (IF i = 1 THEN 0 ELSE cursors[i - 1])

\* a query was made on the compiled program
Queried == queries > 0
\* the run of the last query got to End
ReachedEnd(run) == run.pc > 0 /\ Len(run.cursors) = run.pc

\* C1: decompile of a compiled program returns Ok, and compiling the graph it
\* returns gives the same opcodes and the same constants.
C1_RoundTrip ==
    phase = "decompiled" =>
        /\ roundtrip.dec.res = "Ok"
        /\ roundtrip.recompiled.err = "ok"
        /\ roundtrip.recompiled.opcodes = program.opcodes
        /\ roundtrip.recompiled.constants = program.constants

\* C2: interpreting a compiled program never pops an empty value stack or an
\* empty position stack, and at End exactly one value is on the value stack.
C2_Balanced ==
    Queried =>
        /\ last.out \in {"Some", "panic"}
        /\ last.run.panic \notin {"stack_underflow", "position_underflow"}
        /\ (ReachedEnd(last.run) => last.run.stack_ptr = 1)

\* C3: a program decompile accepts is interpreted without an underflow of the
\* value stack or of the position stack, without a read past the constant pool,
\* and with exactly one value on the stack at End.
C3_DecompileValidates ==
    rawphase = "interpreted" =>
        /\ rawrun.out \in {"Some", "panic"}
        /\ rawrun.run.panic \notin {"stack_underflow", "position_underflow",
                                    "constants_out_of_bounds"}
        /\ (ReachedEnd(rawrun.run) => rawrun.run.stack_ptr = 1)

C5_CursorsAgree ==
    LET run == interpret_internal(program.opcodes, program.constants, NewContext, ZeroVec3)
        agree(cursors) ==
            \A i \in 1..Min2(Len(cursors), Len(run.cursors)) : cursors[i] = run.cursors[i]
    IN /\ phase = "decompiled" => agree(roundtrip.dec.cursors)
       /\ phase = "disassembled" => agree(listing.cursors)

\* The results C6 allows for a program, by the first opcode that fails: the
\* table's count against the constants that remain, the pops against the two
\* stacks, and at the end the stacks' sizes, End, and the constants left.
ValuePops(opcode) ==
    IF opcode \in CombinatorOpcodes \cup SmoothOpcodes THEN 2
    ELSE IF opcode \in {"Material", "PopScale", "PopTransform"} THEN 1
    ELSE 0
ValuePushes(opcode) ==
    IF opcode \in {"PushTranslation", "PushRotation", "PushScale"} THEN 0 ELSE 1
TransformChange(opcode) ==
    IF opcode \in {"PushTranslation", "PushRotation"} THEN 1
    ELSE IF opcode = "PopTransform" THEN -1
    ELSE 0

RECURSIVE ClaimedResults(_, _, _, _, _, _)
ClaimedResults(opcodes, n, i, offset, depth, tdepth) ==
    IF i > Len(opcodes) \/ opcodes[i] = "End"
    THEN LET bad == (IF depth # 1 \/ tdepth # 0 THEN {"BadStack"} ELSE {}) \cup
                    (IF i > Len(opcodes) \/ offset # n THEN {"BadProgram"} ELSE {})
         IN IF bad = {} THEN {"Ok"} ELSE bad
    ELSE LET opcode == opcodes[i]
             short  == offset + TableCount(opcode) > n
             under  == depth < ValuePops(opcode) \/ tdepth + TransformChange(opcode) < 0
         IN IF short \/ under
            THEN (IF short THEN {"BadConstants"} ELSE {}) \cup
                 (IF under THEN {"BadStack"} ELSE {})
            ELSE ClaimedResults(opcodes, n, i + 1, offset + TableCount(opcode),
                                depth - ValuePops(opcode) + ValuePushes(opcode),
                                tdepth + TransformChange(opcode))

\* C6: decompile returns BadConstants when an opcode (PushScale included) needs
\* more constants than remain, BadStack when an opcode pops an empty stack or the
\* run ends with other than one value or with a transform left, BadProgram when
\* End is missing or constants are left, and Ok only when none of these holds.
C6_ErrorClasses ==
    rawphase # "edit" =>
        rawdec.res \in ClaimedResults(raw.opcodes, Len(raw.constants), 1, 0, 0, 0)

\* the largest of a set of naturals, 0 for the empty set
Largest(S) == IF S = {} THEN 0 ELSE CHOOSE m \in S : \A x \in S : x <= m

\* the most combinators, and the most transforms, nested on a path from a node
RECURSIVE NestedCombinators(_, _)
NestedCombinators(g, id) ==
    LET node == get(g, id)
        below == Largest({ NestedCombinators(g, node.children[i]) :
                           i \in 1..Len(node.children) })
    IN IF node.kind \in PrimitiveKinds THEN 0
       ELSE IF node.kind = "Graph" THEN NestedCombinators(node.sub, node.children[1])
       ELSE IF node.kind \in UnaryKinds THEN below
       ELSE 1 + below

RECURSIVE NestedTransforms(_, _)
NestedTransforms(g, id) ==
    LET node == get(g, id)
        below == Largest({ NestedTransforms(g, node.children[i]) :
                           i \in 1..Len(node.children) })
    IN IF node.kind \in PrimitiveKinds THEN 0
       ELSE IF node.kind = "Graph" THEN NestedTransforms(node.sub, node.children[1])
       ELSE IF node.kind \in {"Translate", "Rotate", "Scale"} THEN 1 + below
       ELSE below

Overrun == {"stack_overflow", "position_overflow", "opcodes_out_of_bounds",
            "constants_out_of_bounds"}

C8_ContextReuse ==
    Queried =>
        /\ last.run.at_start = << 0, 0, 0 >>
        /\ \E overflow_checks \in BOOLEAN :
              LET fresh == interpret(program.opcodes, program.constants, NewContext,
                                     last.position, overflow_checks)
              IN /\ last.out = fresh.out
                 /\ last.value = fresh.value
                 /\ last.run.panic = fresh.run.panic

\* C8's case: a second query, at another point than the origin, answered on a
\* context whose stacks hold what the queries wrote
C8_Witness ==
    /\ queries = 2
    /\ last.out = "Some"
    /\ last.position # ZeroVec3
    /\ ctx.stack # NewContext.stack
    /\ ctx.position_stack # NewContext.position_stack

\* C9: compile returns a program or fails with the cycle assertion, for every
\* graph and NodeId the API lets a caller pass.
C9_CompileTotal == phase = "compiled" => program.err \in {"ok", "cycle"}

\* a node reaches itself through child links (a Graph node has none: its root
\* names a node of the nested graph)
Links(g, id) ==
    IF ~HasNode(g, id) \/ get(g, id).kind = "Graph" THEN {}
    ELSE { get(g, id).children[i] : i \in 1..Len(get(g, id).children) }
RECURSIVE Reach(_, _, _)
Reach(g, ids, n) ==
    IF n = 0 THEN ids
    ELSE Reach(g, ids \cup UNION { Links(g, id) : id \in ids }, n - 1)
Acyclic(g) ==
    \A id \in 0..(Len(g.nodes) - 1) : id \notin Reach(g, Links(g, id), Len(g.nodes))

\* C10 as stated: after any public graph operations no node reaches itself
\* through child links, and compile never trips the cycle assertion.
C10_AcyclicAsStated ==
    /\ Acyclic(graph)
    /\ phase = "compiled" => program.err # "cycle"

\* C10, amended: the same for a graph whose constructor calls were each given
\* NodeIds this graph had returned before, and whose nodes were not edited
\* through get_mut.
C10_Acyclic ==
    proper =>
        /\ Acyclic(graph)
        /\ phase = "compiled" => program.err # "cycle"

\* C10's case: a combinator over a node of the same graph, compiled
C10_Witness ==
    /\ proper
    /\ phase = "compiled"
    /\ program.err = "ok"
    /\ HasNode(graph, root)
    /\ get(graph, root).kind = "Union"

\* C11: every program compile returns has End as its last opcode and End
\* nowhere before it.
C11_EndLast ==
    (phase # "build" /\ program.err = "ok") =>
        /\ Len(program.opcodes) >= 1
        /\ \A i \in 1..Len(program.opcodes) :
              (program.opcodes[i] = "End") <=> (i = Len(program.opcodes))

\* a compiled combinator: three opcodes before the End
C11_Witness ==
    /\ phase = "compiled"
    /\ program.err = "ok"
    /\ Len(program.opcodes) >= 4
    /\ program.opcodes[Len(program.opcodes)] = "End"

\* ================================================================ grid fill
\* Grid3<f32>: size and the flat data, x fastest
Cells(size) == size[1] * size[2] * size[3]
\* Index<Index3>: the flat position (from 1) of the cell p = [x, y, z]
FlatIndex(size, p) == p[1] + size[1] * (p[2] + size[2] * p[3]) + 1

\* Grid3::new: every cell T::default()
Grid3New(size) == [i \in 1..Cells(size) |-> 0]

\* Grid3::set with a function of the index; here f gives the same value everywhere
Grid3Set(data, c) == [i \in 1..Len(data) |-> c]

\* The distance function given to the fill: row[x + 1] on the cells of y + z = 0,
\* and rise more for each step along y or z.
SdfAt(sdf, p) == FAdd(sdf.row[p[1] + 1], sdf.rise * (p[2] + p[3]))

\* the x distance bound an evaluated cell starts with
first_bound_without_step(abs_distance) == abs_distance

first_bound(abs_distance) == FSub(abs_distance, ONE)

\* the bound after one more copied cell
next_bound_kept(distance_bound) == distance_bound

next_bound(distance_bound) == FSub(distance_bound, ONE)

\* the store of one cell of the span
write_cell_adding(x_slice, x, distance) ==
    [x_slice EXCEPT ![x + 1] = FAdd(@, distance)]

write_cell(x_slice, x, distance) == [x_slice EXCEPT ![x + 1] = distance]

\* the inner loop of set_truncated_span: the same distance written while the
\* bound exceeds truncate_dist
RECURSIVE SpanCopy(_, _, _, _, _)
SpanCopy(span, x, distance, distance_bound, truncate_dist) ==
    IF FGt(distance_bound, truncate_dist) /\ x < Len(span.x_slice)
    THEN SpanCopy([span EXCEPT !.x_slice = write_cell(@, x, distance)], x + 1,
                  distance, next_bound(distance_bound), truncate_dist)
    ELSE [x_slice |-> span.x_slice, sampled |-> span.sampled, x |-> x]

\* set_truncated_span from cell x on; sampled marks the cells sdf was called for
RECURSIVE SpanLoop(_, _, _, _, _, _)
SpanLoop(span, x, y, z, sdf, truncate_dist) ==
    IF x >= Len(span.x_slice) THEN span
    ELSE LET distance == SdfAt(sdf, << x, y, z >>)
             written  == [x_slice |-> write_cell(span.x_slice, x, distance),
                          sampled |-> [span.sampled EXCEPT ![x + 1] = TRUE]]
             copied   == SpanCopy(written, x + 1, distance,
                                  first_bound(FAbs(distance)), truncate_dist)
         IN SpanLoop([x_slice |-> copied.x_slice, sampled |-> copied.sampled],
                     copied.x, y, z, sdf, truncate_dist)

set_truncated_span(x_slice, y, z, sdf, truncate_dist) ==
    SpanLoop([x_slice |-> x_slice, sampled |-> [i \in 1..Len(x_slice) |-> FALSE]],
             0, y, z, sdf, truncate_dist)

\* the spans of the chunks in order: span k is row y = k mod h of plane z = k div h
RECURSIVE FillSpans(_, _, _, _, _)
FillSpans(size, data, k, sdf, truncate_dist) ==
    IF k * size[1] >= Len(data) THEN [data |-> << >>, sampled |-> << >>]
    ELSE LET w    == size[1]
             span == set_truncated_span(SubSeq(data, k * w + 1, k * w + w),
                                        k % size[2], k \div size[2], sdf, truncate_dist)
             rest == FillSpans(size, data, k + 1, sdf, truncate_dist)
         IN [data |-> span.x_slice \o rest.data, sampled |-> span.sampled \o rest.sampled]

\* set_truncated (set_truncated_sync): chunks_mut panics on a chunk size of zero
set_truncated(size, data, sdf, truncate_dist) ==
    IF size[1] * size[2] = 0
    THEN [panic |-> TRUE, data |-> data, sampled |-> [i \in 1..Len(data) |-> FALSE]]
    ELSE LET filled == FillSpans(size, data, 0, sdf, truncate_dist)
         IN [panic |-> FALSE, data |-> filled.data, sampled |-> filled.sampled]

\* --- the inputs of the fill
GridValues == { -3 * HALF, -HALF, HALF, 3 * HALF, 5 * HALF, 7 * HALF, NAN, INF }
Sdfs == { [row |-> r, rise |-> s] : r \in [1..MaxW -> GridValues], s \in { 0, ONE } }
TruncateDists == { -ONE, 0, 2 * ONE }
GridSizes ==
    { << w, h, 1 >> : w \in 0..MaxW, h \in { 0, 2 } } \cup { << MaxW, 1, 2 >> }

GridUnchanged ==
    /\ UNCHANGED << graph, proper, sizing, tracer, wire >>
    /\ MeshSceneUnchanged
    /\ RunUnchanged
    /\ RawUnchanged

\* Grid3::<f32>::new(size)
GridNew ==
    /\ grid3.phase = "none"
    /\ meshing.res = "idle"
    /\ \E size \in GridSizes :
         grid3' = [grid3 EXCEPT !.phase = "new", !.size = size, !.data = Grid3New(size)]
    /\ UNCHANGED meshing
    /\ GridUnchanged

\* grid.set(f): what the grid holds before the fill
GridSet ==
    /\ grid3.phase = "new"
    /\ grid3' = [grid3 EXCEPT !.phase = "set", !.data = Grid3Set(@, NAN)]
    /\ UNCHANGED meshing
    /\ GridUnchanged

\* grid.set_truncated(sdf, truncate_dist)
SetTruncated ==
    /\ grid3.phase \in { "new", "set" }
    /\ \E sdf \in Sdfs, truncate_dist \in TruncateDists :
         LET res == set_truncated(grid3.size, grid3.data, sdf, truncate_dist)
         IN grid3' = [grid3 EXCEPT !.phase = IF res.panic THEN "panic" ELSE "filled",
                                   !.data = res.data, !.sampled = res.sampled,
                                   !.sdf = sdf, !.truncate_dist = truncate_dist,
                                   !.first = res.data]
    /\ UNCHANGED meshing
    /\ GridUnchanged

\* set_truncated once more, with the same distance function and truncate_dist
SetTruncatedAgain ==
    /\ grid3.phase = "filled"
    /\ LET res == set_truncated(grid3.size, grid3.data, grid3.sdf, grid3.truncate_dist)
       IN grid3' = [grid3 EXCEPT !.phase = IF res.panic THEN "panic" ELSE "refilled",
                                 !.data = res.data, !.sampled = res.sampled]
    /\ UNCHANGED meshing
    /\ GridUnchanged

\* mesh_from_sdf_func(bb, resolution, sd_world, color_world).  The box is
\* scale * (resolution[0] - 1) wide, so world_from_grid_scale is scale; sd_world is
\* given by its values at the world positions of the grid points.  The mesh
\* that marching_cubes makes of a finite sample is not modelled further.
mesh_from_sdf_func(resolution, sd_world, scale) ==
    LET grid_from_world_scale == Recip(scale)
        sd_in_grid == [row |-> [i \in 1..MaxW |-> FMul(grid_from_world_scale,
                                                        sd_world.row[i])],
                       rise |-> FMul(grid_from_world_scale, sd_world.rise)]
        filled == set_truncated(resolution, Grid3New(resolution), sd_in_grid, 2 * ONE)
        len == Len(filled.data)
    IN IF filled.panic \/ len = 0
       THEN [res |-> "panic", data |-> filled.data, sampled |-> filled.sampled]
       ELSE IF ~is_finite(filled.data[(len \div 2) + 1])
       THEN [res |-> "EvaluatedToNaN", data |-> filled.data, sampled |-> filled.sampled]
       ELSE [res |-> "Ok", data |-> filled.data, sampled |-> filled.sampled]

WorldScales == { ONE, 2 * ONE }
Resolutions == { size \in GridSizes : size[1] >= 2 }

MeshFromSdfFunc ==
    /\ grid3.phase = "none"
    /\ meshing.res = "idle"
    /\ \E resolution \in Resolutions, sd_world \in Sdfs, scale \in WorldScales :
         LET out == mesh_from_sdf_func(resolution, sd_world, scale)
         IN meshing' = [res |-> out.res, resolution |-> resolution, sdf |-> sd_world,
                        scale |-> scale, data |-> out.data, sampled |-> out.sampled]
    /\ UNCHANGED grid3
    /\ GridUnchanged

NextGrid ==
    \/ GridNew
    \/ GridSet
    \/ SetTruncated
    \/ SetTruncatedAgain
    \/ MeshFromSdfFunc

SpecGrid == Init /\ [][NextGrid]_vars

\* --- claims about the grid fill
CellsOf(size) ==
    { << x, y, z >> : x \in 0..(size[1] - 1), y \in 0..(size[2] - 1),
                      z \in 0..(size[3] - 1) }

\* |sd(x + 1, y, z) - sd(x, y, z)| <= 1 on the cells of the grid
Lipschitz1AlongX(sdf, size) ==
    \A p \in CellsOf(size) :
        p[1] + 1 < size[1] =>
            FLe(FAbs(FSub(SdfAt(sdf, << p[1] + 1, p[2], p[3] >>), SdfAt(sdf, p))), ONE)

Filled == grid3.phase \in { "filled", "refilled" }

\* C12: after set_truncated with a distance function that is Lipschitz-1 along x,
\* every cell whose true |sd| is <= truncate_dist was evaluated and holds sd of
\* that cell: the cells filled by copying are strictly outside the band.
C12_ExactInBand ==
    (Filled /\ Lipschitz1AlongX(grid3.sdf, grid3.size)) =>
        \A p \in CellsOf(grid3.size) :
            FLe(FAbs(SdfAt(grid3.sdf, p)), grid3.truncate_dist) =>
                /\ grid3.sampled[FlatIndex(grid3.size, p)]
                /\ grid3.data[FlatIndex(grid3.size, p)] = SdfAt(grid3.sdf, p)

\* a Lipschitz-1 fill in which one cell was copied and another is inside the band
C12_Witness ==
    /\ grid3.phase = "filled"
    /\ Lipschitz1AlongX(grid3.sdf, grid3.size)
    /\ \E p \in CellsOf(grid3.size) : ~grid3.sampled[FlatIndex(grid3.size, p)]
    /\ \E p \in CellsOf(grid3.size) :
         FLe(FAbs(SdfAt(grid3.sdf, p)), grid3.truncate_dist)

\* C13: set_truncated run again with the same distance function and truncate_dist
\* leaves the grid as the first run left it, and the first run's grid is what the
\* same fill makes of a new grid, whatever the grid held before.
C13_FillIdempotent ==
    /\ grid3.phase = "refilled" => grid3.data = grid3.first
    /\ Filled =>
         grid3.first = set_truncated(grid3.size, Grid3New(grid3.size), grid3.sdf,
                                     grid3.truncate_dist).data

\* a grid set to other contents, filled with copied cells, and filled again
C13_Witness ==
    /\ grid3.phase = "refilled"
    /\ Len(grid3.data) >= 2
    /\ grid3.data # Grid3New(grid3.size)
    /\ \E i \in 1..Len(grid3.data) : ~grid3.sampled[i]
    /\ \E i \in 1..Len(grid3.data) : ~IsNan(grid3.data[i])

\* C14: mesh_from_sdf_func returns Err(EvaluatedToNaN) exactly when the distance
\* function evaluated to a non-finite value at some cell during the fill.
C14_NanSurfaced ==
    meshing.res # "idle" =>
        ((meshing.res = "EvaluatedToNaN") <=>
            \E i \in 1..Len(meshing.data) :
                meshing.sampled[i] /\ ~is_finite(meshing.data[i]))

\* ====================================================== bb -> resolution
\* Box sizes and resolutions are in hundredths: an integer n stands for the f32
\* n / CENT, and products and quotients are rounded to the nearest hundredth.
CENT == ONE \div 100
CMul(a, b) == (a * b + CENT \div 2) \div CENT
CDiv(a, b) ==
    CASE b > 0 -> (a * CENT + b \div 2) \div b
      [] b < 0 -> ((-a) * CENT + (-b) \div 2) \div (-b)
\* f32::cbrt
Cbrt(v) ==
    LET n == (IF v < 0 THEN -v ELSE v) * CENT * CENT
        r == CHOOSE r \in 0..(6 * CENT) : r * r * r <= n /\ n < (r + 1) * (r + 1) * (r + 1)
    IN IF v < 0 THEN -r ELSE r
\* f32::ceil followed by `as usize`: a count, zero for what is not above zero
CeilAsUsize(x) == IF x <= 0 THEN 0 ELSE (x + CENT - 1) \div CENT

\* BoundingBox::volume of a box of the given size
Volume(size) == CMul(CMul(size[1], size[2]), size[3])

\* the factor chosen when the maximum overrules the minimum
factor_preferring_max(min_factor, max_factor) == Min2(min_factor, max_factor)

\* lib.rs:239, "let the minimum overrule the maximum"
factor(min_factor, max_factor) == Max2(min_factor, max_factor)

\* sdf_bb_and_resolution for a finite box of the given size
sdf_bb_and_resolution(bb, options) ==
    IF ~(Volume(bb) > 0)
    THEN [res |-> "panic", resolution |-> << 0, 0, 0 >>, grid_resolution |-> << 0, 0, 0 >>]
    ELSE
    LET grid_padding == CENT
        preliminary == CDiv(options.mean_resolution, Cbrt(Volume(bb)))
        padding == CDiv(grid_padding, preliminary)
        expanded == << bb[1] + 2 * padding, bb[2] + 2 * padding, bb[3] + 2 * padding >>
        grid_from_world_scale == CDiv(options.mean_resolution, Cbrt(Volume(expanded)))
        resolution == [i \in 1..3 |-> CMul(grid_from_world_scale, expanded[i])]
        max_side == Max2(Max2(resolution[1], resolution[2]), resolution[3])
        max_factor == IF max_side > options.max_resolution
                      THEN CDiv(options.max_resolution, max_side) ELSE CENT
        min_side == Min2(Min2(resolution[1], resolution[2]), resolution[3])
        min_factor == IF min_side < options.min_resolution
                      THEN CDiv(options.min_resolution, min_side) ELSE CENT
        f == factor(min_factor, max_factor)
    IN [res |-> "Ok", resolution |-> resolution,
        grid_resolution |-> [i \in 1..3 |-> CeilAsUsize(CMul(f, resolution[i]))]]

\* --- the inputs
\* MeshOptions::low() and MeshOptions::default()
low == [mean_resolution |-> 32 * CENT, max_resolution |-> 64 * CENT,
        min_resolution |-> 8 * CENT]
default == [mean_resolution |-> 64 * CENT, max_resolution |-> 128 * CENT,
            min_resolution |-> 8 * CENT]
MeshOptions ==
    { low, default } \cup
    { [mean_resolution |-> mean, max_resolution |-> max, min_resolution |-> min] :
        mean \in { -8 * CENT, 4 * CENT, 8 * CENT },
        max \in { 2 * CENT, 6 * CENT, 16 * CENT },
        min \in { CENT, 3 * CENT, 3 * CENT + 1, 8 * CENT } }
BoxSizes == { << x, y, z >> : x, y, z \in { 0, CENT, 2 * CENT, 4 * CENT } }

SdfBbAndResolution ==
    /\ sizing.res = "idle"
    /\ \E bb \in BoxSizes, options \in MeshOptions :
         LET out == sdf_bb_and_resolution(bb, options)
         IN sizing' = [res |-> out.res, bb |-> bb, options |-> options,
                       resolution |-> out.resolution,
                       grid_resolution |-> out.grid_resolution]
    /\ UNCHANGED << graph, proper, grid3, meshing, tracer, wire >>
    /\ MeshSceneUnchanged
    /\ RunUnchanged
    /\ RawUnchanged

NextSizing == SdfBbAndResolution

SpecSizing == Init /\ [][NextSizing]_vars

\* --- claims about the resolution
MinSide == Min2(Min2(sizing.resolution[1], sizing.resolution[2]), sizing.resolution[3])
MaxSide == Max2(Max2(sizing.resolution[1], sizing.resolution[2]), sizing.resolution[3])

\* C15: when no axis of the continuous resolution is below min_resolution and
\* the largest axis exceeds max_resolution, every axis of the returned grid
\* resolution is <= ceil(max_resolution).
C15_MaxClamps ==
    (/\ sizing.res = "Ok"
     /\ MinSide >= sizing.options.min_resolution
     /\ MaxSide > sizing.options.max_resolution) =>
        \A i \in 1..3 :
            sizing.grid_resolution[i] <= CeilAsUsize(sizing.options.max_resolution)

MILLI == ONE \div 10

\* Ray3::point_along
point_along(ray, t) ==
    << FAdd(ray.origin[1], FMulBy(ray.dir[1], t, MILLI)),
       FAdd(ray.origin[2], FMulBy(ray.dir[2], t, MILLI)),
       FAdd(ray.origin[3], FMulBy(ray.dir[3], t, MILLI)) >>

\* the distance to a sphere with the radius left out
sd_sphere_without_radius(pos, center, radius) == Length3(VSub(pos, center))

\* sd_sphere: (pos - center).length() - radius
sd_sphere(pos, center, radius) == Length3(VSub(pos, center)) - radius

\* The n-th call of the distance function (an FnMut): a closure that answers
\* from a table of values, or the distance field of a sphere.
SdCall(sd, pos, n) ==
    IF sd.kind = "table"
    THEN (IF n <= Len(sd.table) THEN sd.table[n] ELSE MILLI)
    ELSE IF \E i \in 1..3 : ~is_finite(pos[i]) THEN NAN
    ELSE sd_sphere(pos, sd.center, sd.radius)

\* a hit threshold of zero
hit_threshold_zero(t) == 0

\* 0.001 * t
hit_threshold(t) ==
    IF IsNan(t) THEN NAN ELSE IF IsInf(t) THEN t ELSE t \div MILLI

\* dist / t, kept as the pair of its terms so that two of them compare exactly
AngleDistance(dist, t) == IF is_finite(dist) THEN << dist, t >> ELSE << dist, 1 >>
Rank(x) == IF x = INF THEN 1 ELSE IF x = -INF THEN -1 ELSE 0
AngleLt(a, b) ==
    IF IsNan(a[1]) \/ IsNan(b[1]) THEN FALSE
    ELSE IF IsInf(a[1]) \/ IsInf(b[1]) THEN Rank(a[1]) < Rank(b[1])
    ELSE a[1] * b[2] < b[1] * a[2]

\* one step more than max_steps
step_budget_one_more(max_steps) == max_steps + 1

\* for _ in 0..opt.max_steps
step_budget(max_steps) == max_steps

\* the loop of trace; samples lists the calls of sd made: t and the distance
RECURSIVE TraceLoop(_, _, _, _, _)
TraceLoop(sd, ray, t_end, opt, st) ==
    IF Len(st.samples) >= step_budget(opt.max_steps)
    THEN [hit |-> st.closest, samples |-> st.samples]
    ELSE
    LET t == st.t
        pos == point_along(ray, t)
        dist == SdCall(sd, pos, Len(st.samples) + 1)
        samples == Append(st.samples, [t |-> t, dist |-> dist])
        angle_distance == AngleDistance(dist, t)
        closer == FGt(t, 0) /\ AngleLt(angle_distance, st.closest_angle_distance)
        next_t == FAdd(t, FMulBy(dist, opt.step_constant, MILLI))
        closest == IF closer
                   THEN [t |-> t, pos |-> pos, dist |-> dist, is_hit |-> FALSE]
                   ELSE st.closest
    IN IF FLe(dist, hit_threshold(t))
       THEN [hit |-> [t |-> t, pos |-> pos, dist |-> dist, is_hit |-> TRUE],
             samples |-> samples]
       ELSE IF FGe(next_t, t_end)
       THEN [hit |-> closest, samples |-> samples]
       ELSE TraceLoop(sd, ray, t_end, opt,
                      [t |-> next_t,
                       closest_angle_distance |->
                           IF closer THEN angle_distance ELSE st.closest_angle_distance,
                       closest |-> closest, samples |-> samples])

\* sphere_tracing::trace
trace(sd, ray, t_range, opt) ==
    TraceLoop(sd, ray, t_range[2], opt,
              [t |-> t_range[1], closest_angle_distance |-> << INF, 1 >>,
               closest |-> miss, samples |-> << >>])

\* --- the inputs
\* Options::default()
DefaultOptions == [max_steps |-> 1024, step_constant |-> MILLI]
DistValues == { -MILLI, -1, 0, 1, MILLI, 2 * MILLI, INF, NAN }
TableFields ==
    { [kind |-> "table", table |-> q, center |-> ZeroVec3, radius |-> 0] :
        q \in SeqsUpTo(DistValues, MaxSteps) }
TRanges ==
    { << lo, hi >> : lo \in { -2 * MILLI, -MILLI, 0, MILLI }, hi \in { 3 * MILLI, INF } }
RayDownZ == [origin |-> << 0, 0, 5 * MILLI >>, dir |-> << 0, 0, -MILLI >>]
Rays == { RayDownZ,
          [origin |-> << 0, 0, 5 * MILLI >>, dir |-> << 0, 0, MILLI >>],
          [origin |-> << 0, 0, 5 * MILLI >>, dir |-> << MILLI, 0, 0 >>] }
UnitSphere == [kind |-> "sphere", table |-> << >>, center |-> ZeroVec3, radius |-> MILLI]
SphereFields == { UnitSphere, [UnitSphere EXCEPT !.radius = 2 * MILLI] }

Traced(sd, ray, t_range, opt) ==
    /\ tracer.res = "idle"
    /\ LET out == trace(sd, ray, t_range, opt)
       IN tracer' = [res |-> "returned", sd |-> sd, ray |-> ray, t_range |-> t_range,
                     opt |-> opt, samples |-> out.samples, hit |-> out.hit]
    /\ UNCHANGED << graph, proper, grid3, meshing, sizing, wire >>
    /\ MeshSceneUnchanged
    /\ RunUnchanged
    /\ RawUnchanged

\* trace with a closure that answers from a table, as many steps as the table has
TraceTable ==
    \E sd \in TableFields, t_range \in TRanges, step_constant \in { MILLI, MILLI \div 2 } :
        Traced(sd, RayDownZ, t_range,
               [max_steps |-> Len(sd.table), step_constant |-> step_constant])

\* trace of a sphere's distance field with the default options
TraceSphere ==
    \E sd \in SphereFields, ray \in Rays :
        Traced(sd, ray, << 0, 10 * MILLI >>, DefaultOptions)

NextTrace ==
    \/ TraceTable
    \/ TraceSphere

SpecTrace == Init /\ [][NextTrace]_vars

\* --- claims about the tracer
Returned == tracer.res = "returned"
Samples == 1..Len(tracer.samples)
\* dist <= 0.001 t, as 1000 dist <= t
SampleHits(i) ==
    LET dist == tracer.samples[i].dist
        t == tracer.samples[i].t
    IN /\ ~IsNan(dist)
       /\ ~IsNan(t)
       /\ IF IsInf(dist) \/ IsInf(t) THEN Rank(dist) <= Rank(t) ELSE MILLI * dist <= t
SampleAngle(i) == AngleDistance(tracer.samples[i].dist, tracer.samples[i].t)
Positive == { i \in Samples : FGt(tracer.samples[i].t, 0) }
\* the samples at t > 0 whose dist / t is below infinity
Comparable == { i \in Positive : AngleLt(SampleAngle(i), << INF, 1 >>) }
IsSample(i) ==
    /\ tracer.hit.t = tracer.samples[i].t
    /\ tracer.hit.dist = tracer.samples[i].dist
    /\ tracer.hit.pos = point_along(tracer.ray, tracer.samples[i].t)

\* the hit half of C17: is_hit exactly when a sample satisfied dist <= 0.001 t,
\* and then the result is the first such sample
HitIsFirst ==
    /\ tracer.hit.is_hit <=> \E i \in Samples : SampleHits(i)
    /\ tracer.hit.is_hit =>
         \E i \in Samples :
            SampleHits(i) /\ IsSample(i) /\ \A j \in 1..(i - 1) : ~SampleHits(j)

\* the miss half: the result is a sample of `among` with no sample of `among`
\* closer, or miss() when `among` is empty
ClosestOf(among) ==
    ~tracer.hit.is_hit =>
        IF among = { } THEN tracer.hit = miss
        ELSE \E i \in among :
                IsSample(i) /\ \A j \in among : ~AngleLt(SampleAngle(j), SampleAngle(i))

\* C17 as stated: on a miss the result is the sample with the smallest dist / t
\* among all samples taken at t > 0, or miss() if no sample was taken at t > 0.
C17_ResultAsStated == Returned => (HitIsFirst /\ ClosestOf(Positive))

\* C17: is_hit exactly when a sample satisfied dist <= 0.001 t, the result then
\* being the first such sample; otherwise the result is the sample with the
\* smallest dist / t among the samples at t > 0 whose dist / t is below
\* infinity (not NaN), or miss() when there is no such sample.
C17_Result == Returned => (HitIsFirst /\ ClosestOf(Comparable))

\* a miss after two samples or more, the result a later sample that was closer
C17_Witness ==
    /\ Returned
    /\ ~tracer.hit.is_hit
    /\ Len(tracer.samples) >= 2
    /\ \E i \in Comparable : i >= 2 /\ IsSample(i)

\* C18: trace returns a ClosestHit after at most max_steps calls of the distance
\* function, whatever it returns, and returns miss() when max_steps = 0.
C18_Terminates ==
    tracer.res # "idle" =>
        /\ Returned
        /\ Len(tracer.samples) <= tracer.opt.max_steps
        /\ tracer.opt.max_steps = 0 => tracer.hit = miss

\* every step taken on non-finite distances, without a hit
C18_Witness ==
    /\ Returned
    /\ Len(tracer.samples) = MaxSteps
    /\ tracer.opt.max_steps = MaxSteps
    /\ \E i \in Samples : ~is_finite(tracer.samples[i].dist)
    /\ \E i \in Samples : tracer.samples[i].dist < 0
    /\ ~tracer.hit.is_hit

Scenario ==
    /\ Returned
    /\ tracer.sd = UnitSphere
    /\ tracer.ray = RayDownZ
    /\ tracer.t_range = << 0, 10 * MILLI >>
    /\ tracer.opt = DefaultOptions

\* C19: the unit sphere traced from (0,0,5) along -z over [0, 10] with default
\* options is hit with |t - 4| < 0.01 and the hit position's z within 0.01 of 1.
C19_Scenario ==
    Scenario =>
        /\ tracer.hit.is_hit
        /\ FLt(FAbs(FSub(tracer.hit.t, 4 * MILLI)), MILLI \div 100)
        /\ FLe(FAbs(FSub(tracer.hit.pos[3], MILLI)), MILLI \div 100)

C19_Witness == Scenario /\ Len(tracer.samples) = 2 /\ tracer.hit.is_hit

\* ============================================================== wire format
\* enum Opcode, #[repr(u32)]: the variants in the order of their discriminants
OpcodeOrder ==
    << "Plane", "Sphere", "Capsule", "TaperedCapsule", "Material", "Union",
       "UnionSmooth", "Subtract", "SubtractSmooth", "Intersect", "IntersectSmooth",
       "PushTranslation", "PushRotation", "PopTransform", "PushScale", "PopScale",
       "End", "RoundedBox", "BiconvexLens", "RoundedCylinder", "Torus", "TorusSector",
       "Cone" >>

\* discriminants counted from one
into_u32_from_one(opcode) == CHOOSE i \in 1..Len(OpcodeOrder) : OpcodeOrder[i] = opcode

\* u32::from(opcode) (num_enum::IntoPrimitive)
into_u32(opcode) == (CHOOSE i \in 1..Len(OpcodeOrder) : OpcodeOrder[i] = opcode) - 1

\* Opcode::try_from(u32) (num_enum::TryFromPrimitive)
try_from(number) ==
    IF number \in 0..(Len(OpcodeOrder) - 1)
    THEN [ok |-> TRUE, opcode |-> OpcodeOrder[number + 1]]
    ELSE [ok |-> FALSE, opcode |-> "none"]

\* the collect of from_raw: the opcodes, or the first number that is no opcode
RECURSIVE CollectOpcodes(_, _, _)
CollectOpcodes(numbers, i, done) ==
    IF i > Len(numbers) THEN [res |-> "Ok", opcodes |-> done, number |-> 0]
    ELSE IF ~try_from(numbers[i]).ok
    THEN [res |-> "UnknownOpcodeError", opcodes |-> << >>, number |-> numbers[i]]
    ELSE CollectOpcodes(numbers, i + 1, Append(done, try_from(numbers[i]).opcode))

\* Program::from_raw
from_raw(opcodes, constants) ==
    LET collected == CollectOpcodes(opcodes, 1, << >>)
    IN [res |-> collected.res, opcodes |-> collected.opcodes,
        constants |-> IF collected.res = "Ok" THEN constants ELSE << >>,
        number |-> collected.number]

\* Program::as_raw
as_raw(p) ==
    [opcodes |-> [i \in 1..Len(p.opcodes) |-> into_u32(p.opcodes[i])],
     constants |-> p.constants]

\* --- the inputs: every code, the first number past them, and a large one
WireNumbers == 0..Len(OpcodeOrder) \cup { 65536 }
WireConstants == { << ONE >>, << NAN, -ONE, INF >> }

WireUnchanged ==
    /\ UNCHANGED << graph, proper, grid3, meshing, sizing, tracer >>
    /\ MeshSceneUnchanged
    /\ RunUnchanged
    /\ RawUnchanged

PushWireOpcode ==
    /\ wire.phase = "edit"
    /\ Len(wire.opcodes) < MaxWireOps
    /\ \E number \in WireNumbers : wire' = [wire EXCEPT !.opcodes = Append(@, number)]
    /\ WireUnchanged

SetWireConstants ==
    /\ wire.phase = "edit"
    /\ wire.constants = << >>
    /\ \E constants \in WireConstants : wire' = [wire EXCEPT !.constants = constants]
    /\ WireUnchanged

\* Program::from_raw(&opcodes, &constants)
FromRaw ==
    /\ wire.phase = "edit"
    /\ wire' = [wire EXCEPT !.phase = "parsed",
                            !.parsed = from_raw(wire.opcodes, wire.constants)]
    /\ WireUnchanged

\* p.as_raw() of the program from_raw returned, and from_raw of that
AsRaw ==
    /\ wire.phase = "parsed"
    /\ wire.parsed.res = "Ok"
    /\ LET raw_parts == as_raw(wire.parsed)
       IN wire' = [wire EXCEPT !.phase = "raw", !.raw = raw_parts,
                               !.again = from_raw(raw_parts.opcodes, raw_parts.constants)]
    /\ WireUnchanged

NextWire ==
    \/ PushWireOpcode
    \/ SetWireConstants
    \/ FromRaw
    \/ AsRaw

SpecWire == Init /\ [][NextWire]_vars

\* --- claims about the wire format
\* the stable numeric codes, as the specification lists them
StableCode(opcode) ==
    CASE opcode = "Plane" -> 0 [] opcode = "Sphere" -> 1 [] opcode = "Capsule" -> 2
      [] opcode = "TaperedCapsule" -> 3 [] opcode = "Material" -> 4
      [] opcode = "Union" -> 5 [] opcode = "UnionSmooth" -> 6
      [] opcode = "Subtract" -> 7 [] opcode = "SubtractSmooth" -> 8
      [] opcode = "Intersect" -> 9 [] opcode = "IntersectSmooth" -> 10
      [] opcode = "PushTranslation" -> 11 [] opcode = "PushRotation" -> 12
      [] opcode = "PopTransform" -> 13 [] opcode = "PushScale" -> 14
      [] opcode = "PopScale" -> 15 [] opcode = "End" -> 16
      [] opcode = "RoundedBox" -> 17 [] opcode = "BiconvexLens" -> 18
      [] opcode = "RoundedCylinder" -> 19 [] opcode = "Torus" -> 20
      [] opcode = "TorusSector" -> 21 [] opcode = "Cone" -> 22

\* C20: from_raw fails exactly when some number is not one of the codes 0..=22
\* and otherwise returns the opcodes of those codes and the constants unchanged;
\* as_raw maps each opcode to its stable code and keeps the constants, and
\* from_raw of as_raw(p) succeeds and equals p.
C20_WireRoundTrip ==
    /\ wire.phase # "edit" =>
         /\ (wire.parsed.res # "Ok") <=>
                \E i \in 1..Len(wire.opcodes) : wire.opcodes[i] \notin 0..22
         /\ wire.parsed.res = "Ok" =>
              /\ Len(wire.parsed.opcodes) = Len(wire.opcodes)
              /\ \A i \in 1..Len(wire.opcodes) :
                    /\ wire.parsed.opcodes[i] \in Opcodes
                    /\ StableCode(wire.parsed.opcodes[i]) = wire.opcodes[i]
              /\ wire.parsed.constants = wire.constants
    /\ wire.phase = "raw" =>
         /\ wire.raw.opcodes =
                [i \in 1..Len(wire.parsed.opcodes) |-> StableCode(wire.parsed.opcodes[i])]
         /\ wire.raw.constants = wire.parsed.constants
         /\ wire.again.res = "Ok"
         /\ wire.again.opcodes = wire.parsed.opcodes
         /\ wire.again.constants = wire.parsed.constants

\* a program with the last code and constants that hold a NaN, brought back
C20_Witness ==
    /\ wire.phase = "raw"
    /\ Len(wire.parsed.opcodes) = MaxWireOps
    /\ \E i \in 1..Len(wire.parsed.opcodes) : wire.parsed.opcodes[i] = "Cone"
    /\ \E i \in 1..Len(wire.parsed.constants) : IsNan(wire.parsed.constants[i])

\* ============================================================ post-mesh passes
\* at most this many passes are made on one mesh
MaxPasses == 2

\* world_from_grid_f of mesh_from_sdf_func: bb.min + world_from_grid_scale * p
world_from_grid_f(bb_min, scale, p) == VAdd(bb_min, VScale(p, scale * ONE))

\* a color_world: one color everywhere, or the position as the color
color_world(kind, p) == IF kind = "flat" THEN << ONE, 0, 0 >> ELSE p

\* gather_colors_in_place extending mesh.colors instead of replacing it
gather_colors_appending(m, kind) ==
    [m EXCEPT !.colors = @ \o [i \in 1..Len(m.positions) |-> color_world(kind, m.positions[i])]]

transform_positions_in_place(m, bb_min, scale) ==
    [m EXCEPT !.positions =
        [i \in 1..Len(m.positions) |-> world_from_grid_f(bb_min, scale, m.positions[i])]]

gather_colors_in_place(m, kind) ==
    [m EXCEPT !.colors = [i \in 1..Len(m.positions) |-> color_world(kind, m.positions[i])]]

\* mesh_from_sdf_func from grid.marching_cubes() on: the two passes, then Ok(mesh)
finish_mesh(marched, bb_min, scale, kind) ==
    gather_colors_in_place(transform_positions_in_place(marched, bb_min, scale), kind)

\* --- the inputs.  A mesh as marching cubes (not part of this source tree) or a
\* caller may hand it over: the fields are public and independent vectors.
GridPoints == { << 0, 0, 0 >>, << ONE, 2 * ONE, 0 >> }
PositionLists == SeqsUpTo(GridPoints, 2)
ColorLists == { << >>, << Rgb >>, << Rgb, Rgb, Rgb >> }
IndexLists == { << >>, << 0, 0, 0 >>, << 0, 1, 0 >> }
Meshes ==
    { [indices |-> ix, positions |-> ps, normals |-> [i \in 1..Len(ps) |-> AxisX],
       colors |-> cs] : ix \in IndexLists, ps \in PositionLists, cs \in ColorLists }
BbMins == { ZeroVec3, << -ONE, -ONE, -ONE >> }
GridScales == { 1, 2 }
ColorKinds == { "flat", "by_position" }

MeshUnchanged ==
    /\ UNCHANGED << graph, proper, grid3, meshing, sizing, tracer, wire, scene, fill >>
    /\ RunUnchanged
    /\ RawUnchanged

\* the mesh the passes are given
MeshGiven ==
    /\ mesh.pass = "none"
    /\ \E m \in Meshes : mesh' = [mesh EXCEPT !.pass = "given", !.mesh = m, !.before = m]
    /\ MeshUnchanged

TransformPositionsInPlace ==
    /\ mesh.pass # "none"
    /\ mesh.passes < MaxPasses
    /\ \E bb_min \in BbMins, scale \in GridScales :
         mesh' = [pass |-> "transform_positions_in_place", passes |-> mesh.passes + 1,
                  mesh |-> transform_positions_in_place(mesh.mesh, bb_min, scale),
                  before |-> mesh.mesh]
    /\ MeshUnchanged

GatherColorsInPlace ==
    /\ mesh.pass # "none"
    /\ mesh.passes < MaxPasses
    /\ \E kind \in ColorKinds :
         mesh' = [pass |-> "gather_colors_in_place", passes |-> mesh.passes + 1,
                  mesh |-> gather_colors_in_place(mesh.mesh, kind), before |-> mesh.mesh]
    /\ MeshUnchanged

\* mesh_from_sdf_func past the NaN check, on the mesh marching cubes returned
MeshFromMarchingCubes ==
    /\ mesh.pass = "given"
    /\ \E bb_min \in BbMins, scale \in GridScales, kind \in ColorKinds :
         mesh' = [pass |-> "mesh_from_sdf_func", passes |-> MaxPasses,
                  mesh |-> finish_mesh(mesh.mesh, bb_min, scale, kind),
                  before |-> mesh.mesh]
    /\ MeshUnchanged

NextMesh ==
    \/ MeshGiven
    \/ TransformPositionsInPlace
    \/ GatherColorsInPlace
    \/ MeshFromMarchingCubes

SpecMesh == Init /\ [][NextMesh]_vars

\* C21: transform_positions_in_place leaves the number of positions and the
\* normals, colors and indices as they were; gather_colors_in_place leaves
\* colors with one entry per position and positions, normals and indices as they
\* were; so the mesh mesh_from_sdf_func returns has as many colors as positions
\* and the indices marching cubes produced.
C21_PassFrames ==
    /\ mesh.pass = "transform_positions_in_place" =>
         /\ Len(mesh.mesh.positions) = Len(mesh.before.positions)
         /\ mesh.mesh.normals = mesh.before.normals
         /\ mesh.mesh.colors = mesh.before.colors
         /\ mesh.mesh.indices = mesh.before.indices
    /\ mesh.pass = "gather_colors_in_place" =>
         /\ Len(mesh.mesh.colors) = Len(mesh.mesh.positions)
         /\ mesh.mesh.positions = mesh.before.positions
         /\ mesh.mesh.normals = mesh.before.normals
         /\ mesh.mesh.indices = mesh.before.indices
    /\ mesh.pass = "mesh_from_sdf_func" =>
         /\ Len(mesh.mesh.colors) = Len(mesh.mesh.positions)
         /\ Len(mesh.mesh.positions) = Len(mesh.before.positions)
         /\ mesh.mesh.normals = mesh.before.normals
         /\ mesh.mesh.indices = mesh.before.indices

\* a mesh returned by mesh_from_sdf_func whose positions moved, and whose colors
\* were not one per position when marching cubes returned it
C21_Witness ==
    /\ mesh.pass = "mesh_from_sdf_func"
    /\ mesh.mesh.indices # << >>
    /\ mesh.mesh.positions # mesh.before.positions
    /\ Len(mesh.before.colors) > Len(mesh.before.positions)
    /\ Len(mesh.before.positions) > 0

\* ============================================= a scene compiled and evaluated
\* a graph of at most this many nodes
MaxSceneNodes == 3

\* an interpreter deep enough for every scene: Interpreter<SD, N> with N above
\* the number of values and positions a scene's program keeps pending
SceneDepth == MaxSceneNodes + 1

\* sd_op_subtract with its operands the other way round
sd_op_subtract_from_first(d1, d2) == IF -d2 > d1 THEN -d2 ELSE d1

\* sdf.rs on distances: d1 is the value popped first
sd_op_union(d1, d2) == IF d1 < d2 THEN d1 ELSE d2
sd_op_subtract(d1, d2) == IF -d1 > d2 THEN -d1 ELSE d2
sd_op_intersect(d1, d2) == IF d1 > d2 THEN d1 ELSE d2

\* the signed distances whose f32 distance() the model computes
RECURSIVE Evaluable(_)
Evaluable(sd) ==
    /\ sd.fn \in {"sd_sphere", "sd_material", "sd_op_union", "sd_op_subtract",
                  "sd_op_intersect", "copy_with_distance"}
    /\ \A i \in 1..Len(sd.args) : Evaluable(sd.args[i])

\* SignedDistance::distance() of a value the interpreter pushed
RECURSIVE Distance(_)
Distance(sd) ==
    LET a == IF Len(sd.args) >= 1 THEN Distance(sd.args[1]) ELSE 0
        b == IF Len(sd.args) >= 2 THEN Distance(sd.args[2]) ELSE 0
    IN CASE sd.fn = "sd_sphere" -> sd_sphere(sd.pos, SubSeq(sd.c, 1, 3), sd.c[4])
         [] sd.fn = "sd_material" -> a
         [] sd.fn = "sd_op_union" -> sd_op_union(a, b)
         [] sd.fn = "sd_op_subtract" -> sd_op_subtract(a, b)
         [] sd.fn = "sd_op_intersect" -> sd_op_intersect(a, b)
         [] sd.fn = "copy_with_distance" -> (sd.c[1] * a) \div ONE

\* --- the constructors' arguments
SceneSpheres == { << ZeroVec3, ONE >>, << AxisX, HALF >> }
ScenePoints == { ZeroVec3, AxisX }
\* radii of a tapered capsule from the origin to AxisY2: two spheres side by
\* side, and the first sphere containing the second
SceneRadii == { << ONE, HALF >>, << 3 * ONE, HALF >> }
\* Node values a caller passes to create_node
SceneNodes == { Prim("TaperedCapsule", ZeroVec3 \o AxisY2 \o << 3 * ONE, HALF >>) }
SceneIds == { scene.ids[i] : i \in 1..Len(scene.ids) }
\* the children of a multi-union: no node, or ids returned in a row
SceneChildren ==
    { SubSeq(scene.ids, j, k) : j \in 1..(Len(scene.ids) + 1), k \in 0..Len(scene.ids) }

SceneUnchanged ==
    /\ UNCHANGED << graph, proper, grid3, meshing, sizing, tracer, wire, mesh, fill >>
    /\ RunUnchanged
    /\ RawUnchanged

\* a node-creating call: the graph gets the node; the id the call returned and
\* the node found under it on return are kept in call order
SceneConstruct(made) ==
    /\ scene.phase = "build"
    /\ Len(scene.ids) < MaxSceneNodes
    /\ Len(made.g.nodes) <= MaxSceneNodes
    /\ scene' = [scene EXCEPT !.graph = made.g, !.ids = Append(@, made.id),
                              !.made = Append(@, get(made.g, made.id))]
    /\ SceneUnchanged

SceneSphere == \E s \in SceneSpheres : SceneConstruct(sphere(scene.graph, s[1], s[2]))
SceneTaperedCapsule ==
    \E r \in SceneRadii :
        SceneConstruct(tapered_capsule(scene.graph, ZeroVec3, AxisY2, r[1], r[2]))
SceneCreateNode == \E node \in SceneNodes : SceneConstruct(create_node(scene.graph, node))
SceneBinary ==
    \E k \in BinaryKinds, l \in SceneIds, r \in SceneIds :
        SceneConstruct(op_binary(scene.graph, k, l, r))
SceneUnionMulti ==
    \E cs \in SceneChildren : SceneConstruct(op_union_multi(scene.graph, cs))
SceneUnionMultiSmooth ==
    \E cs \in SceneChildren : SceneConstruct(op_union_multi_smooth(scene.graph, cs, HALF))
SceneTranslate ==
    \E c \in SceneIds : SceneConstruct(op_translate(scene.graph, c, AxisX))
SceneRotate ==
    \E c \in SceneIds : SceneConstruct(op_rotate(scene.graph, c, RotationY180))
SceneScale ==
    \E c \in SceneIds : SceneConstruct(op_scale(scene.graph, c, 2 * ONE))
SceneIsoTransform ==
    \E c \in SceneIds :
        SceneConstruct(op_iso_transform(scene.graph, c, RotationY180, AxisX))
SceneGraph ==
    \E r \in SceneIds : SceneConstruct(graph_node(scene.graph, scene.graph, r))

\* compile(&graph, root) with the node made last as the root
SceneCompile ==
    /\ scene.phase = "build"
    /\ scene.ids # << >>
    /\ scene' = [scene EXCEPT !.phase = "compiled", !.root = scene.ids[Len(scene.ids)],
                              !.program = compile(scene.graph, scene.ids[Len(scene.ids)])]
    /\ SceneUnchanged

\* Interpreter::interpret on a new context of the program
SceneInterpret ==
    /\ scene.phase = "compiled"
    /\ scene.program.err = "ok"
    /\ \E position \in ScenePoints, overflow_checks \in BOOLEAN :
         LET res == interpret(scene.program.opcodes, scene.program.constants,
                              new_context(SceneDepth), position, overflow_checks)
         IN scene' = [scene EXCEPT !.phase = "evaluated", !.position = position,
                                   !.out = res.out, !.value = res.value, !.run = res.run]
    /\ SceneUnchanged

NextScene ==
    \/ SceneSphere
    \/ SceneTaperedCapsule
    \/ SceneCreateNode
    \/ SceneBinary
    \/ SceneUnionMulti
    \/ SceneUnionMultiSmooth
    \/ SceneTranslate
    \/ SceneRotate
    \/ SceneScale
    \/ SceneIsoTransform
    \/ SceneGraph
    \/ SceneCompile
    \/ SceneInterpret

SpecScene == Init /\ [][NextScene]_vars

\* --- what the claims about a scene speak of
SceneRoot == get(scene.graph, scene.root)
SceneCompiled == scene.phase \in {"compiled", "evaluated"} /\ scene.program.err = "ok"
SceneEvaluated == scene.phase = "evaluated" /\ scene.out = "Some"

\* the code of one node: what compile_node emits for it into an empty program
CodeOf(id) == compile_node(scene.graph, id, EmptyProgram, << >>)

\* the value of the program compiled from one node, at the scene's position
ValueOf(id) ==
    LET p == compile(scene.graph, id)
    IN interpret(p.opcodes, p.constants, new_context(SceneDepth), scene.position, TRUE).value

\* C22: the program compiled from Subtract{lhs, rhs} evaluates to
\* max(d_lhs, -d_rhs), the distances of the programs compiled from lhs and rhs
\* at the same point.
C22_SubtractOrder ==
    (SceneEvaluated /\ SceneRoot.kind = "Subtract" /\ Evaluable(scene.value)) =>
        LET d_lhs == Distance(ValueOf(SceneRoot.children[1]))
            d_rhs == Distance(ValueOf(SceneRoot.children[2]))
        IN Distance(scene.value) = Max2(d_lhs, -d_rhs)

\* a Subtract of two spheres evaluated where the order of the operands shows
C22_Witness ==
    /\ SceneEvaluated
    /\ SceneRoot.kind = "Subtract"
    /\ Evaluable(scene.value)
    /\ LET d_lhs == Distance(ValueOf(SceneRoot.children[1]))
           d_rhs == Distance(ValueOf(SceneRoot.children[2]))
       IN /\ Max2(d_lhs, -d_rhs) # Max2(d_rhs, -d_lhs)
          /\ -d_rhs > d_lhs

\* the interpreter's state after the first k opcodes of the scene's program (the
\* run then ends on the missing opcode)
AfterOpcodes(k) ==
    interpret_internal(SubSeq(scene.program.opcodes, 1, k), scene.program.constants,
                       new_context(SceneDepth), scene.position)

\* the children's code in order, with the combinator and its constants after
\* each child but the first: the code for the first i children
RECURSIVE Chain(_, _, _, _)
Chain(children, i, op, cs) ==
    IF i = 0 THEN [opcodes |-> << >>, constants |-> << >>]
    ELSE LET before == Chain(children, i - 1, op, cs)
             code   == CodeOf(children[i])
         IN [opcodes |-> before.opcodes \o code.opcodes \o
                         (IF i > 1 THEN << op >> ELSE << >>),
             constants |-> before.constants \o code.constants \o
                           (IF i > 1 THEN cs ELSE << >>)]

RECURSIVE MinDistance(_, _)
MinDistance(children, i) ==
    LET d == Distance(ValueOf(children[i]))
    IN IF i = 1 THEN d ELSE Min2(MinDistance(children, i - 1), d)

RECURSIVE CodeLength(_, _)
CodeLength(children, i) ==
    IF i = 0 THEN 0 ELSE CodeLength(children, i - 1) + Len(CodeOf(children[i]).opcodes)

PushOpcodes == {"PushTranslation", "PushRotation", "PushScale"}
PopOpcodes == {"PopTransform", "PopScale"}

\* the Push opcode a Pop at index j closes: the nearest one before j with as
\* many Pops as Pushes in between (0 when there is none)
RECURSIVE Opener(_, _, _)
Opener(opcodes, i, depth) ==
    IF i = 0 THEN 0
    ELSE IF opcodes[i] \in PopOpcodes THEN Opener(opcodes, i - 1, depth + 1)
    ELSE IF opcodes[i] \in PushOpcodes
         THEN (IF depth = 0 THEN i ELSE Opener(opcodes, i - 1, depth - 1))
    ELSE Opener(opcodes, i - 1, depth)

\* the opcode at index k lies in no transform block
Outside(opcodes, k) == Opener(opcodes, k - 1, 0) = 0

\* C24: while a compiled program is interpreted, the current position after a
\* PopTransform or PopScale is the position that was current just before the
\* Push it closes; a primitive outside every transform block is evaluated at the
\* query point; and at End the current position is the query point and the
\* position stack is empty.
C24_PositionRestored ==
    SceneEvaluated =>
        LET opcodes == scene.program.opcodes
        IN /\ \A j \in 1..Len(opcodes) :
                opcodes[j] \in PopOpcodes =>
                    /\ Opener(opcodes, j - 1, 0) > 0
                    /\ AfterOpcodes(j).current_position =
                           AfterOpcodes(Opener(opcodes, j - 1, 0) - 1).current_position
           /\ \A k \in 1..Len(opcodes) :
                (opcodes[k] \in PrimitiveOpcodes /\ Outside(opcodes, k)) =>
                    AfterOpcodes(k).stack[AfterOpcodes(k).stack_ptr].pos = scene.position
           /\ scene.run.current_position = scene.position
           /\ scene.run.position_stack_ptr = 0

\* a transform block that moved the position, closed, and a primitive after it
C24_Witness ==
    /\ SceneEvaluated
    /\ \E j \in 1..Len(scene.program.opcodes) :
          /\ scene.program.opcodes[j] \in PopOpcodes
          /\ AfterOpcodes(j - 1).current_position # scene.position
          /\ \E k \in (j + 1)..Len(scene.program.opcodes) :
                /\ scene.program.opcodes[k] \in PrimitiveOpcodes
                /\ Outside(scene.program.opcodes, k)

\* the Pop opcode that closes a Push at index i: the nearest one after i with as
\* many Pushes as Pops in between (0 when there is none)
RECURSIVE Closer(_, _, _)
Closer(opcodes, j, depth) ==
    IF j > Len(opcodes) THEN 0
    ELSE IF opcodes[j] \in PushOpcodes THEN Closer(opcodes, j + 1, depth + 1)
    ELSE IF opcodes[j] \in PopOpcodes
         THEN (IF depth = 0 THEN j ELSE Closer(opcodes, j + 1, depth - 1))
    ELSE Closer(opcodes, j + 1, depth)

PushOf(kind) ==
    CASE kind = "Translate" -> "PushTranslation"
      [] kind = "Rotate" -> "PushRotation"
      [] kind = "Scale" -> "PushScale"
PopOf(push) == IF push = "PushScale" THEN "PopScale" ELSE "PopTransform"

\* C25: in every program compile returns every Push opcode has its closing Pop and every
\* Pop its opening Push, PopScale for PushScale and PopTransform for the other
\* two; the code of a transform node is its Push, the code of its child, and
\* its Pop; and the value stack right after the closing Pop is one higher than
\* right before the opening Push.
C25_Brackets ==
    SceneCompiled =>
        LET opcodes == scene.program.opcodes
        IN /\ \A i \in 1..Len(opcodes) :
                opcodes[i] \in PushOpcodes =>
                    LET j == Closer(opcodes, i + 1, 0)
                    IN /\ j > i
                       /\ opcodes[j] = PopOf(opcodes[i])
                       /\ Opener(opcodes, j - 1, 0) = i
                       /\ AfterOpcodes(j).stack_ptr = AfterOpcodes(i - 1).stack_ptr + 1
           /\ \A j \in 1..Len(opcodes) :
                opcodes[j] \in PopOpcodes => Opener(opcodes, j - 1, 0) > 0
           /\ \A id \in SceneIds :
                get(scene.graph, id).kind \in {"Translate", "Rotate", "Scale"} =>
                    LET push == PushOf(get(scene.graph, id).kind)
                    IN CodeOf(id).opcodes =
                           << push >> \o CodeOf(get(scene.graph, id).children[1]).opcodes
                                      \o << PopOf(push) >>

\* the constants the interpreter has read before the opcode at index i
RECURSIVE ReadBefore(_, _)
ReadBefore(opcodes, i) ==
    IF i <= 1 THEN 0
    ELSE ReadBefore(opcodes, i - 1) + InterpreterReads(opcodes[i - 1])

\* the constant attached to the smooth combinator at index i
SmoothConstant(p, i) == p.constants[ReadBefore(p.opcodes, i) + 1]

SmoothKinds == BinarySmoothKinds \cup {"UnionMultiSmooth"}

\* C26: in every compiled program the constant of each UnionSmooth,
\* SubtractSmooth and IntersectSmooth opcode is at least 0.0001; a node's size
\* that is at least 0.0001 is emitted as it is; and compiling the decompiled
\* program again gives the same smoothing constants.
C26_SmoothingClamp ==
    (phase # "build" /\ program.err = "ok") =>
        /\ \A i \in 1..Len(program.opcodes) :
              program.opcodes[i] \in SmoothOpcodes =>
                  /\ SmoothConstant(program, i) >= MIN_SMOOTHING
                  /\ (phase = "decompiled" /\ roundtrip.dec.res = "Ok") =>
                        /\ roundtrip.recompiled.opcodes = program.opcodes
                        /\ SmoothConstant(roundtrip.recompiled, i) =
                               SmoothConstant(program, i)
        /\ \A i \in 2..Len(program.opcodes) :
              (/\ i = Len(program.opcodes)
               /\ program.opcodes[i - 1] \in SmoothOpcodes
               /\ \/ get(graph, root).kind \in BinarySmoothKinds
                  \/ /\ get(graph, root).kind = "UnionMultiSmooth"
                     /\ Len(get(graph, root).children) >= 2
               /\ get(graph, root).f[1] >= MIN_SMOOTHING) =>
                  SmoothConstant(program, i - 1) = get(graph, root).f[1]

\* a smooth combinator with a size below zero, compiled, decompiled and
\* compiled again
C26_Witness ==
    /\ phase = "decompiled"
    /\ roundtrip.dec.res = "Ok"
    /\ get(graph, root).kind \in SmoothKinds
    /\ get(graph, root).f[1] < 0
    /\ program.opcodes[Len(program.opcodes) - 1] \in SmoothOpcodes

\* C27: a Capsule node with equal endpoints compiles to a Sphere opcode with
\* four constants, the point and the radius; with different endpoints it
\* compiles to a Capsule opcode with seven constants; and no compiled program
\* has a Capsule opcode whose two endpoints are equal.
C27_CapsuleCanonical ==
    (phase # "build" /\ program.err = "ok") =>
        /\ get(graph, root).kind = "Capsule" =>
              LET f == get(graph, root).f
              IN IF << f[1], f[2], f[3] >> = << f[4], f[5], f[6] >>
                 THEN /\ program.opcodes = << "Sphere", "End" >>
                      /\ program.constants = << f[1], f[2], f[3], f[7] >>
                 ELSE /\ program.opcodes = << "Capsule", "End" >>
                      /\ program.constants = f
                      /\ Len(program.constants) = 7
        /\ \A i \in 1..Len(program.opcodes) :
              program.opcodes[i] = "Capsule" =>
                  LET at == ReadBefore(program.opcodes, i)
                  IN \E c \in 1..3 : program.constants[at + c] # program.constants[at + 3 + c]

\* a capsule whose endpoints are one point, compiled
C27_Witness ==
    /\ phase = "compiled"
    /\ program.err = "ok"
    /\ get(graph, root).kind = "Capsule"
    /\ SubSeq(get(graph, root).f, 1, 3) = SubSeq(get(graph, root).f, 4, 6)
    /\ Len(program.constants) = 4

\* one end sphere of a tapered capsule contains the other
Degenerate(p0, r0, p1, r1) ==
    LET distance == Length3(VSub(p0, p1))
    IN distance + r1 <= r0 \/ distance + r0 <= r1

\* C28: for a graph built with the public API, tapered_capsule and create_node
\* included, no TaperedCapsule opcode of the compiled program has constants
\* that describe one end sphere inside the other, and a TaperedCapsule node
\* that does compiles to a Sphere opcode.
C28_NoDegenerateTaperedCapsule ==
    SceneCompiled =>
        /\ \A i \in 1..Len(scene.program.opcodes) :
              scene.program.opcodes[i] = "TaperedCapsule" =>
                  LET at == ReadBefore(scene.program.opcodes, i)
                      c  == SubSeq(scene.program.constants, at + 1, at + 8)
                  IN ~Degenerate(SubSeq(c, 1, 3), c[4], SubSeq(c, 5, 7), c[8])
        /\ (/\ SceneRoot.kind = "TaperedCapsule"
            /\ Degenerate(SubSeq(SceneRoot.f, 1, 3), SceneRoot.f[7],
                          SubSeq(SceneRoot.f, 4, 6), SceneRoot.f[8])) =>
              scene.program.opcodes = << "Sphere", "End" >>

\* some node the root reaches is its own ancestor, in the graph or in a graph
\* nested in it
RECURSIVE Cyclic(_, _)
Cyclic(g, id) ==
    \E n \in Reach(g, {id}, Len(g.nodes)) :
        /\ HasNode(g, n)
        /\ \/ n \in Reach(g, Links(g, n), Len(g.nodes))
           \/ get(g, n).kind = "Graph" /\ Cyclic(get(g, n).sub, get(g, n).children[1])

\* every NodeId the root reaches has a node, in the graph and in the graphs
\* nested in it
RECURSIVE Resolved(_, _)
Resolved(g, id) ==
    \A n \in Reach(g, {id}, Len(g.nodes)) :
        /\ HasNode(g, n)
        /\ get(g, n).kind = "Graph" => Resolved(get(g, n).sub, get(g, n).children[1])

C30_NodeIdsAsStated ==
    /\ \A i \in 1..Len(scene.ids) : scene.ids[i] = i - 1
    /\ \A i \in 1..Len(scene.ids) :
          /\ HasNode(scene.graph, scene.ids[i])
          /\ get(scene.graph, scene.ids[i]) = scene.made[i]

\* the nodes the graph holds stay as they are under their ids
NodesKept ==
    \A i \in 1..Len(scene.graph.nodes) :
        /\ i <= Len(scene.graph.nodes')
        /\ scene.graph.nodes'[i] = scene.graph.nodes[i]

\* C30, amended: the ids of a graph are allocated in the order its nodes are
\* created, 0, 1, ..., one per node; a call returns the id of the node it
\* created last (op_iso_transform creates two), so the ids returned increase
\* strictly in call order and the id returned last is the number of nodes less
\* one; every id returned maps to the node its call created; and no such call
\* changes a node the graph already holds.
C30_NodeIds ==
    /\ [](/\ \A i \in 1..Len(scene.ids) :
               /\ HasNode(scene.graph, scene.ids[i])
               /\ get(scene.graph, scene.ids[i]) = scene.made[i]
               /\ i > 1 => scene.ids[i] > scene.ids[i - 1]
               /\ i = Len(scene.ids) => scene.ids[i] = Len(scene.graph.nodes) - 1
          /\ scene.graph.id_allocator = Len(scene.graph.nodes)
          /\ Len(scene.made) = Len(scene.ids))
    /\ [][NodesKept]_vars

\* a node made with create_node, op_iso_transform over it, and both of its
\* nodes in the graph
C30_Witness ==
    /\ Len(scene.ids) = 2
    /\ scene.made[1].kind = "TaperedCapsule"
    /\ scene.made[1].f[7] > scene.made[1].f[8] + 2 * ONE
    /\ scene.ids[2] = 2
    /\ get(scene.graph, 1).kind = "Rotate"
    /\ scene.made[2].kind = "Translate"

\* ------------------------------------------------ the copies of the grid fill
\* the mesher's classification of a stored value
IsInside(v) == FLt(v, 0)
IsOutside(v) == FGt(v, 0)

\* C31: after set_truncated with a distance function that is Lipschitz-1 along x
\* and a truncate_dist >= 0, every cell, evaluated or copied, holds a value that
\* is negative exactly when the true distance at the cell is negative, and
\* positive exactly when it is positive.
C31_SignPreserved ==
    (Filled /\ Lipschitz1AlongX(grid3.sdf, grid3.size) /\ FGe(grid3.truncate_dist, 0)) =>
        \A p \in CellsOf(grid3.size) :
            LET stored == grid3.data[FlatIndex(grid3.size, p)]
                true_distance == SdfAt(grid3.sdf, p)
            IN /\ IsInside(stored) <=> IsInside(true_distance)
               /\ IsOutside(stored) <=> IsOutside(true_distance)

\* a Lipschitz-1 fill across the surface with a copied cell inside it, where the
\* true distance at the copied cell is not the value copied
C31_Witness ==
    /\ grid3.phase = "filled"
    /\ Lipschitz1AlongX(grid3.sdf, grid3.size)
    /\ FGe(grid3.truncate_dist, 0)
    /\ \E p \in CellsOf(grid3.size) :
         /\ ~grid3.sampled[FlatIndex(grid3.size, p)]
         /\ IsInside(grid3.data[FlatIndex(grid3.size, p)])
         /\ grid3.data[FlatIndex(grid3.size, p)] # SdfAt(grid3.sdf, p)
    /\ \E q \in CellsOf(grid3.size) : IsOutside(SdfAt(grid3.sdf, q))

\* the cells after flat position i, up to stop, that were filled without a call
RECURSIVE CopiedAfter(_, _, _)
CopiedAfter(sampled, i, stop) ==
    IF i >= stop \/ sampled[i + 1] THEN 0
    ELSE 1 + CopiedAfter(sampled, i + 1, stop)

\* floor(D - truncate_dist - 1), none if negative; an infinite D has no end
FloorSkip(D, truncate_dist) ==
    IF IsNan(D) \/ IsNan(truncate_dist) THEN 0
    ELSE IF IsInf(D) THEN IF D > 0 THEN INF ELSE 0
    ELSE IF D - truncate_dist - ONE < 0 THEN 0
    ELSE (D - truncate_dist - ONE) \div ONE

\* the number of k >= 1 with D - k > truncate_dist: ceil(D - truncate_dist - 1)
CeilSkip(D, truncate_dist) ==
    IF IsNan(D) \/ IsNan(truncate_dist) THEN 0
    ELSE IF IsInf(D) THEN IF D > 0 THEN INF ELSE 0
    ELSE IF D - truncate_dist - ONE <= 0 THEN 0
    ELSE (D - truncate_dist - ONE - 1) \div ONE + 1

Smaller(a, b) == IF a < b THEN a ELSE b

\* the cells left in the span after cell p
LeftInSpan(size, p) == size[1] - 1 - p[1]

\* the copies that follow the evaluated cell p in the filled grid
CopiesAfter(p) ==
    CopiedAfter(grid3.sampled, FlatIndex(grid3.size, p),
                FlatIndex(grid3.size, << grid3.size[1] - 1, p[2], p[3] >>))

\* C32 as stated: an evaluated cell with |d| = D is followed by exactly
\* floor(D - truncate_dist - 1) copied cells (none if negative, fewer only at the
\* end of the span).
C32_SkipFloor ==
    Filled =>
        \A p \in CellsOf(grid3.size) :
            grid3.sampled[FlatIndex(grid3.size, p)] =>
                CopiesAfter(p) =
                    Smaller(LeftInSpan(grid3.size, p),
                            FloorSkip(FAbs(SdfAt(grid3.sdf, p)), grid3.truncate_dist))

\* C32: an evaluated cell with |d| = D is followed by exactly as many copied
\* cells as there are k >= 1 with D - k > truncate_dist, that is
\* ceil(D - truncate_dist - 1) (none if that is not positive or D is NaN, fewer
\* only at the end of the span): floor(D - truncate_dist - 1) when that number is
\* an integer, one more when it is not.
C32_SkipCeil ==
    Filled =>
        \A p \in CellsOf(grid3.size) :
            grid3.sampled[FlatIndex(grid3.size, p)] =>
                CopiesAfter(p) =
                    Smaller(LeftInSpan(grid3.size, p),
                            CeilSkip(FAbs(SdfAt(grid3.sdf, p)), grid3.truncate_dist))

\* an evaluated cell with a non-integer D - truncate_dist - 1 > 0 followed by
\* copies that stop before the end of the span
C32_Witness ==
    /\ grid3.phase = "filled"
    /\ \E p \in CellsOf(grid3.size) :
         LET D == FAbs(SdfAt(grid3.sdf, p))
         IN /\ grid3.sampled[FlatIndex(grid3.size, p)]
            /\ is_finite(D)
            /\ D - grid3.truncate_dist - ONE > 0
            /\ (D - grid3.truncate_dist - ONE) % ONE # 0
            /\ CopiesAfter(p) >= 1
            /\ CopiesAfter(p) < LeftInSpan(grid3.size, p)

\* ================================== the fill by workers, Grid3::set, gradients
\* a grid of more rows than this is not filled by workers here
MaxSpans == 2

\* the x_slice of span k (from 0) begins at this offset of the data:
\* chunks of w * h cells, each cut into chunks of w cells
x_slice_start_shared(k, size) == 0

x_slice_start(k, size) == (k \div size[2]) * (size[1] * size[2]) + (k % size[2]) * size[1]

\* the y and z that enumerate() gives for span k (from 0)
span_yz(k, size) == << k % size[2], k \div size[2] >>

\* x += 1
next_x_stuck(x) == x

next_x(x) == x + 1

\* Grid3::set: the coordinates in the order of its loops, x innermost; the n-th
\* is handed to the callback for data[index] with index = n
loop_order_y_innermost(size) ==
    [n \in 1..Cells(size) |->
        << ((n - 1) \div size[2]) % size[1], (n - 1) % size[2],
           (n - 1) \div (size[1] * size[2]) >>]

RECURSIVE LoopX(_, _, _, _)
LoopX(size, x, y, z) ==
    IF x >= size[1] THEN << >>
    ELSE << << x, y, z >> >> \o LoopX(size, x + 1, y, z)
RECURSIVE LoopY(_, _, _)
LoopY(size, y, z) ==
    IF y >= size[2] THEN << >>
    ELSE LoopX(size, 0, y, z) \o LoopY(size, y + 1, z)
RECURSIVE LoopZ(_, _)
LoopZ(size, z) ==
    IF z >= size[3] THEN << >>
    ELSE LoopY(size, 0, z) \o LoopZ(size, z + 1)

loop_order(size) == LoopZ(size, 0)

\* Grid3::set(f) with f the distance function
Grid3SetWith(size, data, sdf) ==
    LET order == loop_order(size)
    IN [data |-> [index \in 1..Len(order) |-> SdfAt(sdf, order[index])], at |-> order]

\* usize arithmetic: a - b panics in a build with overflow checks and wraps in
\* one without.  usize is 64 bits wide; the model keeps 30.
USIZE_MODULUS == 1073741824
usize_sub(a, b, build) ==
    [panic |-> a < b /\ build = "debug", value |-> (a - b) % USIZE_MODULUS]

\* Ord::clamp(self, min, max): asserts min <= max
clamp(v, min, max) ==
    [panic |-> min > max, value |-> IF v < min THEN min ELSE IF v > max THEN max ELSE v]

\* Index<Index3>: debug_assert!(p[i] < size[i]), then the bounds-checked data[..]
index_panics(size, len, p, build) ==
    \/ build = "debug" /\ \E i \in 1..3 : p[i] >= size[i]
    \/ FlatIndex(size, p) > len

RECURSIVE ReadsUntilPanic(_, _, _, _)
ReadsUntilPanic(size, len, wanted, build) ==
    IF wanted = << >> THEN [panic |-> FALSE, reads |-> << >>]
    ELSE IF index_panics(size, len, Head(wanted), build)
    THEN [panic |-> TRUE, reads |-> << >>]
    ELSE LET rest == ReadsUntilPanic(size, len, Tail(wanted), build)
         IN [panic |-> rest.panic, reads |-> << Head(wanted) >> \o rest.reads]

\* Grid3::gradient_clamped(p): the coordinates it reads, or a panic
gradient_clamped(size, len, p, build) ==
    LET top == [i \in 1..3 |-> usize_sub(size[i], 2, build)]
        c == [i \in 1..3 |-> clamp(p[i], 1, top[i].value)]
    IN IF \E i \in 1..3 : top[i].panic \/ c[i].panic
       THEN [panic |-> TRUE, clamped |-> p, reads |-> << >>]
       ELSE LET q == << c[1].value, c[2].value, c[3].value >>
                wanted == << << q[1] + 1, q[2], q[3] >>, << q[1] - 1, q[2], q[3] >>,
                             << q[1], q[2] + 1, q[3] >>, << q[1], q[2] - 1, q[3] >>,
                             << q[1], q[2], q[3] + 1 >>, << q[1], q[2], q[3] - 1 >> >>
                read == ReadsUntilPanic(size, len, wanted, build)
            IN [panic |-> read.panic, clamped |-> q, reads |-> read.reads]

\* Grid3::fast_gradient(x, y, z, i, ys, zs): the positions of data it reads
\* (from 0), or a panic
fast_gradient(size, len, x, y, z, i, ys, zs, build) ==
    LET sx == usize_sub(size[1], 1, build)
        sy == usize_sub(size[2], 1, build)
        sz == usize_sub(size[3], 1, build)
        x1 == IF x < sx.value THEN i + 1 ELSE i
        x2 == IF x > 0 THEN i - 1 ELSE i
        y1 == IF y < sy.value THEN i + ys ELSE i
        y2 == IF y > 0 THEN i - ys ELSE i
        z1 == IF z < sz.value THEN i + zs ELSE i
        z2 == IF z > 0 THEN i - zs ELSE i
        wanted == << x1, x2, y1, y2, z1, z2 >>
    IN [panic |-> \/ sx.panic \/ sy.panic \/ sz.panic
                  \/ \E n \in 1..6 : wanted[n] < 0 \/ wanted[n] >= len,
        reads |-> wanted]

\* --- the inputs
FillValues == { HALF, 5 * HALF, NAN, INF }
FillSdfs == { [row |-> r, rise |-> ONE] : r \in [1..MaxW -> FillValues] }
FillTruncateDists == { -INF, -ONE, 0, INF, NAN }
FillSizes == GridSizes \cup { << 3, 3, 3 >>, << 1, 3, 3 >>, << 3, 4, 3 >> }
Builds == { "debug", "release" }

FillUnchanged ==
    /\ UNCHANGED << graph, proper, grid3, meshing, sizing, tracer, wire, mesh, scene >>
    /\ RunUnchanged
    /\ RawUnchanged

\* a count kept as 0, 1, or 2 for two and more
Counted(n) == IF n >= 2 THEN 2 ELSE n + 1

\* Grid3::<f32>::new(size)
FillNew ==
    /\ fill.phase = "none"
    /\ \E size \in FillSizes :
         fill' = [fill EXCEPT !.phase = "new", !.size = size, !.data = Grid3New(size),
                              !.at = [i \in 1..Cells(size) |-> << >>],
                              !.writes = [i \in 1..Cells(size) |-> 0],
                              !.evals = [i \in 1..Cells(size) |-> 0],
                              !.by = [i \in 1..Cells(size) |-> { }]]
    /\ FillUnchanged

\* grid.set(sdf)
FillSet ==
    /\ fill.phase = "new"
    /\ \E sdf \in FillSdfs :
         LET res == Grid3SetWith(fill.size, fill.data, sdf)
         IN fill' = [fill EXCEPT !.phase = "set", !.sdf = sdf, !.data = res.data,
                                 !.at = res.at]
    /\ FillUnchanged

\* grid.set_truncated(sdf, truncate_dist) with workers: the call panics on a
\* chunk size of zero, and else hands every x-span to a task of its own
FillStart ==
    /\ fill.phase = "new"
    /\ fill.size[2] * fill.size[3] <= MaxSpans
    /\ \E sdf \in FillSdfs, truncate_dist \in FillTruncateDists :
         fill' = [fill EXCEPT
                    !.phase = IF fill.size[1] * fill.size[2] = 0 THEN "panic" ELSE "run",
                    !.sdf = sdf, !.truncate_dist = truncate_dist,
                    !.spans = IF fill.size[1] * fill.size[2] = 0 THEN << >>
                              ELSE [k \in 1..(fill.size[2] * fill.size[3]) |->
                                       [pc |-> "eval", x |-> 0, distance |-> 0,
                                        distance_bound |-> 0]]]
    /\ FillUnchanged

\* where a task is after a write: the tests of the two loops
after_write(x, distance_bound, w, truncate_dist) ==
    IF x >= w THEN "done"
    ELSE IF FGt(distance_bound, truncate_dist) THEN "copy" ELSE "eval"

\* the write of cell x of span k by its task
FillWrite(k, distance, distance_bound, evaluated) ==
    LET s == fill.spans[k]
        w == fill.size[1]
        yz == span_yz(k - 1, fill.size)
        cell == x_slice_start(k - 1, fill.size) + s.x + 1
    IN fill' = [fill EXCEPT
                  !.data = write_cell(@, cell - 1, distance),
                  !.at[cell] = IF evaluated THEN << s.x, yz[1], yz[2] >> ELSE @,
                  !.writes[cell] = Counted(@),
                  !.evals[cell] = IF evaluated THEN Counted(@) ELSE @,
                  !.by[cell] = @ \cup { k },
                  !.spans[k] = [pc |-> after_write(next_x(s.x), distance_bound, w,
                                                   fill.truncate_dist),
                                x |-> next_x(s.x), distance |-> distance,
                                distance_bound |-> distance_bound]]

\* the outer loop of set_truncated_span in task k: one cell evaluated and written
FillEval(k) ==
    /\ fill.phase = "run"
    /\ k \in 1..Len(fill.spans)
    /\ fill.spans[k].pc = "eval"
    /\ LET yz == span_yz(k - 1, fill.size)
           distance == SdfAt(fill.sdf, << fill.spans[k].x, yz[1], yz[2] >>)
       IN FillWrite(k, distance, first_bound(FAbs(distance)), TRUE)
    /\ FillUnchanged

\* the inner loop of set_truncated_span in task k: one cell copied
FillCopy(k) ==
    /\ fill.phase = "run"
    /\ k \in 1..Len(fill.spans)
    /\ fill.spans[k].pc = "copy"
    /\ FillWrite(k, fill.spans[k].distance, next_bound(fill.spans[k].distance_bound),
                 FALSE)
    /\ FillUnchanged

\* grid.gradient_clamped(p) and grid.fast_gradient(x, y, z, i, ys, zs) with the
\* index and strides of p, in a build with or without overflow checks
FillGradient ==
    /\ fill.phase \in { "new", "set" }
    /\ \E p \in CellsOf(fill.size), build \in Builds :
         LET len == Len(fill.data)
             slow == gradient_clamped(fill.size, len, p, build)
             fast == fast_gradient(fill.size, len, p[1], p[2], p[3],
                                   FlatIndex(fill.size, p) - 1, fill.size[1],
                                   fill.size[1] * fill.size[2], build)
         IN fill' = [fill EXCEPT !.phase = "read", !.grad =
                        [res |-> IF slow.panic THEN "panic" ELSE "ok", build |-> build,
                         p |-> p, clamped |-> slow.clamped, reads |-> slow.reads,
                         fast |-> IF fast.panic THEN << >> ELSE fast.reads]]
    /\ FillUnchanged

NextFill ==
    \/ FillNew
    \/ FillSet
    \/ FillStart
    \/ \E k \in 1..MaxSpans : FillEval(k)
    \/ \E k \in 1..MaxSpans : FillCopy(k)
    \/ FillGradient

SpecFill == Init /\ [][NextFill]_vars

\* a task that can take a step takes one
SpecFillLive == SpecFill /\ \A k \in 1..MaxSpans : WF_vars(FillEval(k) \/ FillCopy(k))

FillRunning == fill.phase = "run"
FillDone == FillRunning /\ \A k \in 1..Len(fill.spans) : fill.spans[k].pc = "done"

\* --- claims about the fill by workers
\* the task whose x_slice holds the cell at flat position cell (from 1)
OwnerOf(cell) == ((cell - 1) \div fill.size[1]) + 1

\* C33: with the x-spans of set_truncated filled by concurrent tasks in any
\* interleaving, no cell is ever written by a task other than the one whose
\* slice holds it, nor twice; when all tasks are done every cell was written
\* by exactly one task and the grid equals the grid set_truncated_sync makes;
\* and the call panics exactly when set_truncated_sync does.
C33_ParallelEqualsSync ==
    LET sync == set_truncated(fill.size, Grid3New(fill.size), fill.sdf,
                              fill.truncate_dist)
    IN /\ FillRunning =>
            /\ ~sync.panic
            /\ \A cell \in 1..Len(fill.data) :
                 /\ fill.by[cell] \subseteq { OwnerOf(cell) }
                 /\ fill.writes[cell] <= 1
            /\ FillDone =>
                 /\ \A cell \in 1..Len(fill.data) :
                      fill.by[cell] = { OwnerOf(cell) } /\ fill.writes[cell] = 1
                 /\ fill.data = sync.data
       /\ fill.phase = "panic" => sync.panic

\* two tasks done, each with a copied cell, and rows that differ
C33_Witness ==
    /\ FillDone
    /\ Len(fill.spans) = 2
    /\ \A k \in 1..2 :
         \E cell \in 1..Len(fill.data) : fill.by[cell] = { k } /\ fill.evals[cell] = 0
    /\ SubSeq(fill.data, 1, fill.size[1]) #
         SubSeq(fill.data, fill.size[1] + 1, 2 * fill.size[1])

\* the cells of span k so far: those before the task's x written once each, the
\* others not at all; none evaluated twice; the first evaluated
SpanInOrder(k) ==
    LET s == fill.spans[k]
        w == fill.size[1]
        start == (k - 1) * w
    IN /\ s.x <= w
       /\ s.pc = "done" <=> s.x = w
       /\ \A x \in 0..(w - 1) :
            /\ fill.writes[start + x + 1] = IF x < s.x THEN 1 ELSE 0
            /\ fill.evals[start + x + 1] <= 1
       /\ s.x > 0 => fill.evals[start + 1] = 1

SpansInOrder == FillRunning => \A k \in 1..Len(fill.spans) : SpanInOrder(k)

\* C34: for any distance function (NaN and infinite values included) and any
\* truncate_dist, every set_truncated_span reaches its end, at every moment the
\* cells it has written are exactly those before its x, each written once, it
\* never evaluates a cell twice, and it evaluates the cell at x = 0.
C34_SpanTerminates == []SpansInOrder /\ (FillRunning ~> FillDone)

\* a finished fill with a NaN and an infinite distance, a copied cell, and a
\* truncate_dist that is NaN or negative
C34_Witness ==
    /\ FillDone
    /\ \E cell \in 1..Len(fill.data) : IsNan(fill.data[cell])
    /\ \E cell \in 1..Len(fill.data) : IsInf(fill.data[cell]) /\ fill.evals[cell] = 0
    /\ ~FGe(fill.truncate_dist, 0)

\* C37: p -> p[0] + sx * (p[1] + sy * p[2]) maps the in-bounds coordinates one
\* to one onto the positions of the data; Grid3::set hands the callback, for
\* every cell, the coordinate whose flat index is the cell it writes, and so
\* does set_truncated for every cell it evaluates: grid[p] holds sd(p).
C37_GridLayout ==
    /\ fill.phase # "none" =>
         /\ \A p, q \in CellsOf(fill.size) :
              FlatIndex(fill.size, p) = FlatIndex(fill.size, q) => p = q
         /\ { FlatIndex(fill.size, p) : p \in CellsOf(fill.size) } = 1..Cells(fill.size)
    /\ fill.phase = "set" =>
         \A p \in CellsOf(fill.size) :
             /\ fill.at[FlatIndex(fill.size, p)] = p
             /\ fill.data[FlatIndex(fill.size, p)] = SdfAt(fill.sdf, p)
    /\ FillRunning =>
         \A p \in CellsOf(fill.size) :
             fill.evals[FlatIndex(fill.size, p)] >= 1 =>
                 /\ fill.at[FlatIndex(fill.size, p)] = p
                 /\ fill.data[FlatIndex(fill.size, p)] = SdfAt(fill.sdf, p)

\* a grid of three unequal-looking axes set from a function that varies along
\* each of them
C37_Witness ==
    /\ fill.phase = "set"
    /\ fill.size[1] # fill.size[2]
    /\ \A i \in 1..3 : fill.size[i] >= 2
    /\ fill.data[FlatIndex(fill.size, << 1, 0, 0 >>)] # fill.data[1]
    /\ fill.data[FlatIndex(fill.size, << 0, 1, 0 >>)] # fill.data[1]
    /\ fill.data[FlatIndex(fill.size, << 0, 0, 1 >>)] # fill.data[1]

\* C38: on a non-empty grid and an in-grid coordinate, gradient_clamped and
\* fast_gradient return, and every cell they read is inside the grid.
C38_GradientsInBounds ==
    fill.phase = "read" =>
        /\ fill.grad.res = "ok"
        /\ Len(fill.grad.reads) = 6
        /\ \A n \in 1..Len(fill.grad.reads) : fill.grad.reads[n] \in CellsOf(fill.size)
        /\ Len(fill.grad.fast) = 6
        /\ \A n \in 1..Len(fill.grad.fast) : fill.grad.fast[n] \in 0..(Len(fill.data) - 1)

\* the same for fast_gradient alone, and for gradient_clamped on grids of three
\* and more cells along every axis
GradientsInBoundsOnWideGrids ==
    fill.phase = "read" =>
        /\ Len(fill.grad.fast) = 6
        /\ \A n \in 1..Len(fill.grad.fast) : fill.grad.fast[n] \in 0..(Len(fill.data) - 1)
        /\ (\A i \in 1..3 : fill.size[i] >= 3) =>
             /\ fill.grad.res = "ok"
             /\ Len(fill.grad.reads) = 6
             /\ \A n \in 1..6 : fill.grad.reads[n] \in CellsOf(fill.size)

\* --- the range of the march
InRange(t) == FLe(tracer.t_range[1], t) /\ FLe(t, tracer.t_range[2])

\* the t of every call of the distance function, and a finite t of the result
MarchInRange ==
    /\ \A i \in Samples : InRange(tracer.samples[i].t)
    /\ is_finite(tracer.hit.t) => InRange(tracer.hit.t)

\* each call of the distance function at a larger t than the one before
MarchIncreases ==
    \A i \in Samples : i + 1 \in Samples => FLt(tracer.samples[i].t, tracer.samples[i + 1].t)

\* C35: for any distance function and any t_range, every t at which trace calls
\* the distance function, and the t of every result with a finite t, lies in
\* [t_lo, t_hi]; and when t_lo >= 0 and step_constant > 0 the t of the calls
\* increase strictly.
C35_MarchInRange ==
    Returned =>
        /\ MarchInRange
        /\ (FGe(tracer.t_range[1], 0) /\ tracer.opt.step_constant > 0) => MarchIncreases

\* what the march keeps: started at t_lo >= 0 and given distances that are not
\* NaN, it stays in [t_lo, t_hi] and never goes back
MarchInRangeFromZero ==
    (/\ Returned
     /\ FGe(tracer.t_range[1], 0)
     /\ \A i \in Samples : ~IsNan(tracer.samples[i].dist)) =>
        /\ MarchInRange
        /\ \A i \in Samples :
             i + 1 \in Samples => FLe(tracer.samples[i].t, tracer.samples[i + 1].t)

\* a march from a negative t_lo that called the distance function below t_lo
\* without having been given NaN
MarchLeftRange ==
    /\ Returned
    /\ \A i \in Samples : ~IsNan(tracer.samples[i].dist)
    /\ \E i \in Samples : FLt(tracer.samples[i].t, tracer.t_range[1])

\* =============================== the interpreter as f32 and as RgbWithDistance
\* The interpreter is generic in the SignedDistance it pushes; T names the
\* implementation: an f32 is its distance, an RgbWithDistance is r, g, b, distance.
SdTypes == { "f32", "RgbWithDistance" }

\* SignedDistance::distance
distance(T, v) == IF T = "f32" THEN v ELSE v[4]

\* copy_with_distance of an RgbWithDistance with `n.0.w = distance` left out
copy_with_distance_keeping_w(T, v, d) == IF T = "f32" THEN d ELSE v

\* SignedDistance::copy_with_distance
copy_with_distance(T, v, d) == IF T = "f32" THEN d ELSE [v EXCEPT ![4] = d]

\* SignedDistance::new_with_distance
new_with_distance(T, material, d) == IF T = "f32" THEN d ELSE material \o << d >>

\* SignedDistance::lerp: t * (b - self) + self for f32, Vec4::lerp for the other
lerp(T, a, b, t) ==
    IF T = "f32" THEN FAdd(FMul(t, FSub(b, a)), a)
    ELSE [i \in 1..4 |-> FAdd(a[i], FMul(FSub(b[i], a[i]), t))]

\* Material::default()
DefaultMaterial == << ONE, ONE, ONE >>

\* f32::clamp(0.0, 1.0)
Clamp01(h) == IF h < 0 THEN 0 ELSE IF h > ONE THEN ONE ELSE h

\* sdf.rs, generic in T
sd_material(T, sd, material) == new_with_distance(T, material, distance(T, sd))
sd_op_union_of(T, d1, d2) == IF distance(T, d1) < distance(T, d2) THEN d1 ELSE d2
sd_op_subtract_of(T, d1, d2) ==
    LET neg_distance1 == -distance(T, d1)
    IN IF neg_distance1 > distance(T, d2) THEN copy_with_distance(T, d1, neg_distance1)
       ELSE d2
sd_op_intersect_of(T, d1, d2) == IF distance(T, d1) > distance(T, d2) THEN d1 ELSE d2
sd_op_union_smooth(T, d1, d2, size) ==
    LET h == Clamp01(HALF + (HALF * (distance(T, d2) - distance(T, d1))) \div size)
        new_d == lerp(T, d2, d1, h)
    IN copy_with_distance(T, new_d,
                          distance(T, new_d) - FMul(FMul(size, h), ONE - h))
sd_op_subtract_smooth(T, d1, d2, size) ==
    LET h == Clamp01(HALF - (HALF * (distance(T, d2) + distance(T, d1))) \div size)
        negated == copy_with_distance(T, d1, -distance(T, d1))
        new_d == lerp(T, d2, negated, h)
    IN copy_with_distance(T, new_d,
                          FMul(FMul(size, h), ONE - h) + distance(T, new_d))
sd_op_intersect_smooth(T, d1, d2, size) ==
    LET h == Clamp01(HALF - (HALF * (distance(T, d2) - distance(T, d1))) \div size)
        new_d == lerp(T, d2, d1, h)
    IN copy_with_distance(T, new_d,
                          FMul(FMul(size, h), ONE - h) + distance(T, new_d))

\* the values of type T that the interpreter computes here
RECURSIVE Computable(_)
Computable(sd) ==
    /\ sd.fn \in { "zero", "sd_sphere", "sd_material", "sd_op_union", "sd_op_subtract",
                   "sd_op_intersect", "sd_op_union_smooth", "sd_op_subtract_smooth",
                   "sd_op_intersect_smooth", "copy_with_distance" }
    /\ \A i \in 1..Len(sd.args) : Computable(sd.args[i])

\* the value of type T that the interpreter pushed for sd; a slot never written
\* holds the zeroed value
RECURSIVE ValueAs(_, _)
ValueAs(T, sd) ==
    LET a == IF Len(sd.args) >= 1 THEN ValueAs(T, sd.args[1]) ELSE 0
        b == IF Len(sd.args) >= 2 THEN ValueAs(T, sd.args[2]) ELSE 0
    IN CASE sd.fn = "zero" -> IF T = "f32" THEN 0 ELSE << 0, 0, 0, 0 >>
         [] sd.fn = "sd_sphere" ->
              new_with_distance(T, DefaultMaterial,
                                sd_sphere(sd.pos, SubSeq(sd.c, 1, 3), sd.c[4]))
         [] sd.fn = "sd_material" -> sd_material(T, a, sd.c)
         [] sd.fn = "sd_op_union" -> sd_op_union_of(T, a, b)
         [] sd.fn = "sd_op_subtract" -> sd_op_subtract_of(T, a, b)
         [] sd.fn = "sd_op_intersect" -> sd_op_intersect_of(T, a, b)
         [] sd.fn = "sd_op_union_smooth" -> sd_op_union_smooth(T, a, b, sd.c[1])
         [] sd.fn = "sd_op_subtract_smooth" -> sd_op_subtract_smooth(T, a, b, sd.c[1])
         [] sd.fn = "sd_op_intersect_smooth" -> sd_op_intersect_smooth(T, a, b, sd.c[1])
         [] sd.fn = "copy_with_distance" ->
              copy_with_distance(T, a, FMul(sd.c[1], distance(T, a)))

\* how a run went: its outcome, the cursor after every opcode, the heights
RunOf(res) ==
    [out |-> res.out, cursors |-> res.run.cursors, stack_ptr |-> res.run.stack_ptr,
     position_stack_ptr |-> res.run.position_stack_ptr, pc |-> res.run.pc,
     panic |-> res.run.panic]

\* the value of type T that interpret returns
Returns(T, res) ==
    IF res.out = "Some" /\ Computable(res.value) THEN ValueAs(T, res.value)
    ELSE ValueAs(T, ZeroSd)

\* Interpreter::<f32>::interpret and Interpreter::<RgbWithDistance>::interpret,
\* each on a new context of the program, at the same position
interpret_both(opcodes, constants, position) ==
    LET d == interpret(opcodes, constants, new_context(SceneDepth), position, TRUE)
        rgbd == interpret(opcodes, constants, new_context(SceneDepth), position, TRUE)
    IN [d |-> RunOf(d), rgbd |-> RunOf(rgbd), distance |-> Returns("f32", d),
        rgbd_value |-> Returns("RgbWithDistance", rgbd)]

\* --- the scenes of the two interpreters
DualSmoothSizes == { 0, HALF }

SceneMaterial == \E c \in SceneIds : SceneConstruct(op_material(scene.graph, c, Rgb))
SceneBinarySmooth ==
    \E k \in BinarySmoothKinds, l \in SceneIds, r \in SceneIds, size \in DualSmoothSizes :
        SceneConstruct(op_binary_smooth(scene.graph, k, l, r, size))

\* d_func and color_func of mesh_from_sdf_program at one point: the program run
\* by Interpreter::<f32> and by Interpreter::<RgbWithDistance>
SceneInterpretBoth ==
    /\ scene.phase = "compiled"
    /\ scene.program.err = "ok"
    /\ \E position \in ScenePoints :
         scene' = [scene EXCEPT !.phase = "both", !.position = position,
                                !.dual = interpret_both(scene.program.opcodes,
                                                        scene.program.constants,
                                                        position)]
    /\ SceneUnchanged

NextDual ==
    \/ SceneSphere
    \/ SceneMaterial
    \/ SceneBinary
    \/ SceneBinarySmooth
    \/ SceneScale
    \/ SceneCompile
    \/ SceneInterpretBoth

SpecDual == Init /\ [][NextDual]_vars

=============================================================================
